---- MODULE Spec2Model ----
(***************************************************************************)
(* LiveMart order lifecycle: payment webhook reconciliation, the order     *)
(* status state machine, delivery claims and checkout inventory            *)
(* reservation, modelled over a shared relational store.                   *)
(*                                                                         *)
(* Every request runs in its own database session (one transaction at a    *)
(* time, READ COMMITTED).  A request is a process slot p: it reads rows    *)
(* into session-local copies, flushes UPDATEs (taking row locks) and       *)
(* commits.  The variables without a process index are the committed       *)
(* rows.                                                                   *)
(***************************************************************************)
EXTENDS Integers, Sequences, FiniteSets, TLC

None == "none"

\* ---- bounds ----
NumOrders == 2
MaxAppend == 4
MaxAppendConc == 2
MaxUsedCount == 2
MaxStock == 2
MaxQty == 2
MaxIds == 2
MaxSettlements == 2
MaxCents == 3
MaxDistMills == 6
MaxGross == 130

\* two database sessions serve requests side by side
Procs == {"w1", "w2"}
NoProc == None
Orders == 1..NumOrders

\* ---- enumerations ----
PaymentStatus == {"pending", "completed", "failed"}

OrderStatus ==
  {"PENDING", "CONFIRMED", "PREPARING", "READY_TO_SHIP",
   "DELIVERY_PARTNER_ASSIGNED", "PICKED_UP", "OUT_FOR_DELIVERY", "DELIVERED",
   "CANCELLED", "RETURNED", "REFUNDED"}

RoleEnum == {"admin", "customer", "retailer", "wholesaler", "delivery_partner"}

BuyerType == {"customer", "retailer"}

Users == {"buyer", "seller1", "seller2", "dp1", "dp2"}

\* ---- order status state machine tables ----
SELLER_TRANSITIONS ==
  [s \in {"PENDING", "CONFIRMED", "PREPARING"} |->
     CASE s = "PENDING" -> "CONFIRMED"
       [] s = "CONFIRMED" -> "PREPARING"
       [] s = "PREPARING" -> "READY_TO_SHIP"]

DELIVERY_TRANSITIONS ==
  [s \in {"DELIVERY_PARTNER_ASSIGNED", "PICKED_UP", "OUT_FOR_DELIVERY"} |->
     CASE s = "DELIVERY_PARTNER_ASSIGNED" -> "PICKED_UP"
       [] s = "PICKED_UP" -> "OUT_FOR_DELIVERY"
       [] s = "OUT_FOR_DELIVERY" -> "DELIVERED"]

SELLER_ROLES == {"retailer", "wholesaler"}

\* mutant: cancellation allowed up to the hand-over to a delivery partner
CANCEL_ALLOWED_STATUSES_UntilShipped ==
  {"PENDING", "CONFIRMED", "PREPARING", "READY_TO_SHIP"}

CANCEL_ALLOWED_STATUSES == {"PENDING", "CONFIRMED", "PREPARING"}

FORBIDDEN_TARGETS == {"RETURNED", "REFUNDED"}

TERMINAL_STATUSES == {"CANCELLED", "DELIVERED", "RETURNED", "REFUNDED"}

\* dict.get(key): the mapped value, or None when the key is absent
DictGet(d, k) == IF k \in DOMAIN d THEN d[k] ELSE None

\* ---- fixed identity fields of the rows created by one checkout ----
\* Order.seller_id: a two-seller cart splits into orders of either seller
seller_id(o) == IF o % 2 = 1 THEN "seller1" ELSE "seller2"

\* Payment.buyer_id
buyer_id == "buyer"

\* Payment.razorpay_order_id
razorpay_order_id == "order_rzp"

\* webhook inputs
WebhookEvents == {"payment.captured", "payment.failed", "payment.authorized"}
GatewayOrderIds == {razorpay_order_id, "order_unknown", None}
GatewayPaymentIds == {"pay_1"}

VARIABLES
  payment_status,       \* Payment.status (committed)
  razorpay_payment_id,  \* Payment.razorpay_payment_id (committed)
  payment_coupon,       \* whether a PaymentCoupon row links the payment to a coupon
  used_count,           \* Coupon.used_count (committed)
  cart_items,           \* product ids in the buyer's cart (committed); the
                        \* buyer has put a product back since the checkout
  buyer_type,           \* Order.buyer_type of the orders of the checkout
  order_status,         \* Order.order_status per order (committed)
  delivery_partner_id,  \* Order.delivery_partner_id per order (committed)
  history,              \* OrderStatusHistory rows per order, oldest first
  pay_lock,             \* holder of the Payment row lock (flushed, uncommitted UPDATE)
  pc,                   \* position of each request
  req,                  \* inputs of each request
  loc,                  \* session-local copies read by each request
  resp,                 \* response of each request
  catalog,              \* Product rows: seller, seller type, flags, pricing tiers
  stock,                \* ProductInventory.stock_quantity per product (committed)
  initial_stock,        \* the stock before any checkout
  inv_lock,             \* holder of each ProductInventory row lock (FOR UPDATE)
  placed,               \* committed Order rows with their OrderItems, in order
  ck,                   \* the checkout request of each session
  settlement_id,        \* Order.settlement_id per order (committed)
  settlements,          \* committed PaymentSettlement rows, oldest first
  st,                   \* the create_settlement request of each session
  quote,                \* amounts of the order last built for a cart group
  payout,               \* amounts last computed for a payee's gross total
  order_amounts,        \* Order.original_subtotal and delivery_fee per order, in paise
  pending,              \* the last answer of get_pending_settlements_by_user
  payments,             \* the Payment rows created by checkouts
  checkout_req,         \* POST /orders/checkout after create_orders_from_cart
  cart_cleared_by,      \* the paths that have run clear_cart for the buyer
  cart_lines,           \* the CartItem rows of each buyer's cart, oldest first
  carts,                \* the number of Cart rows of each buyer
  cart_req,             \* the cart-accessing request a session is serving
  emails                \* the send_email background tasks added so far

dbvars == <<payment_status, razorpay_payment_id, payment_coupon, used_count,
            cart_items, buyer_type, order_status, delivery_partner_id, history>>

lifevars == <<payment_status, razorpay_payment_id, payment_coupon, used_count,
              cart_items, buyer_type, order_status, delivery_partner_id, history,
              pay_lock, pc, req, loc, resp>>

ckvars == <<catalog, stock, initial_stock, inv_lock, placed, ck>>

stvars == <<settlement_id, settlements, st>>

feevars == <<quote, payout, order_amounts, pending>>

payvars == <<payments, checkout_req>>

cartvars == <<cart_cleared_by, cart_lines, carts, cart_req>>
notifyvars == <<emails>>

vars == <<lifevars, ckvars, stvars, feevars, payvars, cartvars, notifyvars>>

NoReq == [kind |-> None, event |-> None, gw_order |-> None, gw_payment |-> None,
          user |-> None, role |-> None, order |-> 0, status |-> None]

NoLoc == [payment_status |-> None, order_status |-> None, dp |-> None]

InFlight(p) == pc[p] \notin {"idle", "done"}

\* The checkout's orders as the model first looks at them: an odd order is
\* freshly created (PENDING, no history); an even order has meanwhile been
\* confirmed, prepared and made ready to ship by its seller.
SellerPath == <<"CONFIRMED", "PREPARING", "READY_TO_SHIP">>

InitStatus(o) == IF o % 2 = 1 THEN "PENDING" ELSE "READY_TO_SHIP"

InitHistory(o) ==
  IF o % 2 = 1 THEN <<>>
  ELSE [i \in 1..Len(SellerPath) |->
          [status |-> SellerPath[i], updated_by_id |-> seller_id(o)]]

RECURSIVE Appended(_, _)
\* number of history rows written since, over the orders in S
Appended(h, S) ==
  IF S = {} THEN 0
  ELSE LET o == CHOOSE x \in S : TRUE
       IN  (Len(h[o]) - Len(InitHistory(o))) + Appended(h, S \ {o})

\* a request slot is free, and the bounded history and coupon counter leave
\* room for what the request may write
CanStart(p, limit) ==
  /\ ~InFlight(p)
  /\ Appended(history, Orders) < limit
  /\ used_count < MaxUsedCount

\* the rows one checkout has left behind, and no request under way
InitLifecycle(coupons, btypes) ==
  /\ payment_status = "pending"
  /\ razorpay_payment_id = None
  /\ payment_coupon \in coupons
  /\ used_count = 0
  /\ cart_items = {"prod_a"}
  /\ buyer_type \in btypes
  /\ order_status = [o \in Orders |-> InitStatus(o)]
  /\ delivery_partner_id = [o \in Orders |-> None]
  /\ history = [o \in Orders |-> InitHistory(o)]
  /\ pay_lock = NoProc
  /\ pc = [p \in Procs |-> "idle"]
  /\ req = [p \in Procs |-> NoReq]
  /\ loc = [p \in Procs |-> NoLoc]
  /\ resp = [p \in Procs |-> None]

\* ------------------------------------------------------------------------
\* POST /payments/razorpay/webhook
\* ------------------------------------------------------------------------

\* mutant: the handler without its idempotency guard
WebhookEarlyReturn_NoGuard(event, gw_order, status) ==
  IF gw_order = None THEN "ignored"
  ELSE IF gw_order # razorpay_order_id THEN "payment not found; ignored"
  ELSE IF event = "payment.captured" THEN None
  ELSE IF event = "payment.failed" THEN None
  ELSE "ignored"

\* Message the handler returns before it writes anything, or None when the
\* event goes on to change state: no order id, unknown payment, the
\* idempotency guard, or an event type that is not handled.
WebhookEarlyReturn(event, gw_order, status) ==
  IF gw_order = None THEN "ignored"
  ELSE IF gw_order # razorpay_order_id THEN "payment not found; ignored"
  ELSE IF event = "payment.captured"
         THEN IF status = "completed" THEN "ok" ELSE None
  ELSE IF event = "payment.failed" THEN None
  ELSE "ignored"

\* Parse the event, look the Payment up and take the early returns.
razorpay_webhook(p, event, gw_order, gw_payment) ==
  /\ UNCHANGED ckvars
  /\ UNCHANGED stvars
  /\ UNCHANGED feevars
  /\ UNCHANGED payvars
  /\ UNCHANGED cartvars
  /\ UNCHANGED notifyvars
  /\ req' = [req EXCEPT ![p] = [NoReq EXCEPT !.kind = "webhook", !.event = event,
                                  !.gw_order = gw_order, !.gw_payment = gw_payment]]
  /\ loc' = [loc EXCEPT ![p] = [NoLoc EXCEPT !.payment_status =
                IF gw_order = razorpay_order_id THEN payment_status ELSE None]]
  /\ LET early == WebhookEarlyReturn(event, gw_order, payment_status) IN
       IF early # None
         THEN /\ pc' = [pc EXCEPT ![p] = "done"]
              /\ resp' = [resp EXCEPT ![p] = early]
         ELSE /\ pc' = [pc EXCEPT ![p] =
                   IF event = "payment.captured" THEN "flush_payment"
                                                 ELSE "payment_failed"]
              /\ resp' = [resp EXCEPT ![p] = None]
  /\ UNCHANGED <<dbvars, pay_lock>>

\* payment.status = COMPLETED; the SELECT of PaymentCoupon autoflushes the
\* UPDATE of the Payment row, which waits for and then takes its row lock.
WebhookFlushPayment(p) ==
  /\ UNCHANGED ckvars
  /\ UNCHANGED stvars
  /\ UNCHANGED feevars
  /\ UNCHANGED payvars
  /\ UNCHANGED cartvars
  /\ UNCHANGED notifyvars
  /\ pc[p] = "flush_payment"
  /\ pay_lock = NoProc
  /\ pay_lock' = p
  /\ pc' = [pc EXCEPT ![p] = "coupon"]
  /\ UNCHANGED <<dbvars, req, loc, resp>>

\* COMMIT of a session that may hold the flushed Payment UPDATE
CommittedPaymentStatus(p) == IF pay_lock = p THEN "completed" ELSE payment_status
CommittedGatewayPaymentId(p) ==
  IF pay_lock = p THEN req[p].gw_payment ELSE razorpay_payment_id
ReleasedLock(p) == IF pay_lock = p THEN NoProc ELSE pay_lock

\* coupon.used_count += 1; session.commit()
increment_coupon_usage(p) ==
  /\ used_count' = used_count + 1
  /\ payment_status' = CommittedPaymentStatus(p)
  /\ razorpay_payment_id' = CommittedGatewayPaymentId(p)
  /\ pay_lock' = ReleasedLock(p)

WebhookCoupon(p) ==
  /\ UNCHANGED ckvars
  /\ UNCHANGED stvars
  /\ UNCHANGED feevars
  /\ UNCHANGED payvars
  /\ UNCHANGED cartvars
  /\ UNCHANGED notifyvars
  /\ pc[p] = "coupon"
  /\ IF payment_coupon
       THEN increment_coupon_usage(p)
       ELSE UNCHANGED <<used_count, payment_status, razorpay_payment_id, pay_lock>>
  /\ pc' = [pc EXCEPT ![p] = "clear_cart"]
  /\ UNCHANGED <<payment_coupon, cart_items, buyer_type, order_status,
                 delivery_partner_id, history, req, loc, resp>>

\* delete every CartItem of the user; session.commit()
clear_cart(p) ==
  /\ cart_items' = {}
  /\ payment_status' = CommittedPaymentStatus(p)
  /\ razorpay_payment_id' = CommittedGatewayPaymentId(p)
  /\ pay_lock' = ReleasedLock(p)

WebhookClearCart(p) ==
  /\ UNCHANGED ckvars
  /\ UNCHANGED stvars
  /\ UNCHANGED feevars
  /\ UNCHANGED payvars
  /\ UNCHANGED notifyvars
  /\ pc[p] = "clear_cart"
  /\ clear_cart(p)
  /\ cart_cleared_by' = cart_cleared_by \cup {"webhook"}
  /\ cart_lines' = [cart_lines EXCEPT ![buyer_id] = <<>>]
  /\ UNCHANGED <<carts, cart_req>>
  /\ pc' = [pc EXCEPT ![p] = "confirm"]
  /\ UNCHANGED <<payment_coupon, used_count, buyer_type, order_status,
                 delivery_partner_id, history, req, loc, resp>>

\* every order of the payment: order_status = CONFIRMED plus a history row
\* written by the buyer; session.commit(); return ok
WebhookConfirmOrders(p) ==
  /\ UNCHANGED ckvars
  /\ UNCHANGED stvars
  /\ UNCHANGED feevars
  /\ UNCHANGED payvars
  /\ UNCHANGED cartvars
  /\ UNCHANGED notifyvars
  /\ pc[p] = "confirm"
  /\ order_status' = [o \in Orders |-> "CONFIRMED"]
  /\ history' = [o \in Orders |-> Append(history[o],
                    [status |-> "CONFIRMED", updated_by_id |-> buyer_id])]
  /\ payment_status' = CommittedPaymentStatus(p)
  /\ razorpay_payment_id' = CommittedGatewayPaymentId(p)
  /\ pay_lock' = ReleasedLock(p)
  /\ pc' = [pc EXCEPT ![p] = "done"]
  /\ resp' = [resp EXCEPT ![p] = "ok"]
  /\ UNCHANGED <<payment_coupon, used_count, cart_items, buyer_type,
                 delivery_partner_id, req, loc>>

\* mutant: a failed payment cancels its orders
WebhookPaymentFailed_CancelsOrders(p) ==
  /\ UNCHANGED ckvars
  /\ UNCHANGED stvars
  /\ UNCHANGED feevars
  /\ UNCHANGED payvars
  /\ UNCHANGED cartvars
  /\ UNCHANGED notifyvars
  /\ pc[p] = "payment_failed"
  /\ pay_lock = NoProc
  /\ payment_status' = "failed"
  /\ order_status' = [o \in Orders |-> "CANCELLED"]
  /\ pc' = [pc EXCEPT ![p] = "done"]
  /\ resp' = [resp EXCEPT ![p] = "ok"]
  /\ UNCHANGED <<razorpay_payment_id, payment_coupon, used_count, cart_items,
                 buyer_type, delivery_partner_id, history, pay_lock, req, loc>>

\* payment.failed: payment.status = FAILED; session.commit(); return ok
WebhookPaymentFailed(p) ==
  /\ UNCHANGED ckvars
  /\ UNCHANGED stvars
  /\ UNCHANGED feevars
  /\ UNCHANGED payvars
  /\ UNCHANGED cartvars
  /\ UNCHANGED notifyvars
  /\ pc[p] = "payment_failed"
  /\ pay_lock = NoProc
  /\ payment_status' = "failed"
  /\ pc' = [pc EXCEPT ![p] = "done"]
  /\ resp' = [resp EXCEPT ![p] = "ok"]
  /\ UNCHANGED <<razorpay_payment_id, payment_coupon, used_count, cart_items,
                 buyer_type, order_status, delivery_partner_id, history,
                 pay_lock, req, loc>>

\* ------------------------------------------------------------------------
\* Order state machine: PATCH /orders/{id}/status and POST /orders/{id}/claim
\* ------------------------------------------------------------------------

\* the seller role under which an order of this buyer type is served
required_seller_role(btype) == IF btype = "customer" THEN "retailer" ELSE "wholesaler"

NoHints == [available |-> FALSE, next_status |-> None, can_cancel |-> FALSE]

\* mutant: hints that do not look at who the viewer is
get_order_action_hints_AnyCaller(status, seller, dp, btype, user, role) ==
  LET seller_next == DictGet(SELLER_TRANSITIONS, status)
      can_cancel == status \in CANCEL_ALLOWED_STATUSES
      dp_next == DictGet(DELIVERY_TRANSITIONS, status)
  IN  IF status \in TERMINAL_STATUSES THEN NoHints
      ELSE IF seller_next # None \/ can_cancel
        THEN [available |-> TRUE, next_status |-> seller_next, can_cancel |-> can_cancel]
      ELSE IF dp_next # None
        THEN [available |-> TRUE, next_status |-> dp_next, can_cancel |-> FALSE]
      ELSE NoHints

\* The actions a viewer may take on an order, from the order row as read.
get_order_action_hints(status, seller, dp, btype, user, role) ==
  LET is_seller == /\ user = seller
                   /\ role \in SELLER_ROLES
                   /\ role = required_seller_role(btype)
      is_dp == dp # None /\ user = dp /\ role = "delivery_partner"
      seller_next == DictGet(SELLER_TRANSITIONS, status)
      can_cancel == status \in CANCEL_ALLOWED_STATUSES
      dp_next == DictGet(DELIVERY_TRANSITIONS, status)
  IN  IF status \in TERMINAL_STATUSES THEN NoHints
      ELSE IF ~(is_seller \/ is_dp) THEN NoHints
      ELSE IF is_seller /\ (seller_next # None \/ can_cancel)
        THEN [available |-> TRUE, next_status |-> seller_next, can_cancel |-> can_cancel]
      ELSE IF is_dp /\ dp_next # None
        THEN [available |-> TRUE, next_status |-> dp_next, can_cancel |-> FALSE]
      ELSE NoHints

\* mutant: any target is accepted from a caller who has some action
UpdateStatusReject_AnyTarget(hints, status) ==
  IF status \in FORBIDDEN_TARGETS THEN "400"
  ELSE IF ~hints.available THEN "403"
  ELSE IF status = "CANCELLED"
         THEN IF ~hints.can_cancel THEN "403" ELSE None
  ELSE None

\* mutant: RETURNED and REFUNDED pass as targets
UpdateStatusReject_UnsupportedPass(hints, status) ==
  IF status \in FORBIDDEN_TARGETS THEN None
  ELSE IF ~hints.available THEN "403"
  ELSE IF status = "CANCELLED"
         THEN IF ~hints.can_cancel THEN "403" ELSE None
  ELSE IF hints.next_status = None \/ status # hints.next_status THEN "400"
  ELSE None

\* HTTP status with which update_status rejects the request, or None when
\* the transition is applied.
UpdateStatusReject(hints, status) ==
  IF status \in FORBIDDEN_TARGETS THEN "400"
  ELSE IF ~hints.available THEN "403"
  ELSE IF status = "CANCELLED"
         THEN IF ~hints.can_cancel THEN "403" ELSE None
  ELSE IF hints.next_status = None \/ status # hints.next_status THEN "400"
  ELSE None

\* Load the order, compute the caller's hints and validate the target.  A
\* rejected request is over at once and leaves only its response behind,
\* which names the target when it is an unsupported one.
update_status(p, user, role, o, status) ==
  /\ UNCHANGED ckvars
  /\ UNCHANGED stvars
  /\ UNCHANGED feevars
  /\ UNCHANGED payvars
  /\ UNCHANGED cartvars
  /\ UNCHANGED notifyvars
  /\ LET hints == get_order_action_hints(order_status[o], seller_id(o),
                      delivery_partner_id[o], buyer_type, user, role)
         reject == UpdateStatusReject(hints, status)
     IN  IF reject # None
           THEN /\ pc' = [pc EXCEPT ![p] = "done"]
                /\ resp' = [resp EXCEPT ![p] = reject]
                /\ req' = [req EXCEPT ![p] =
                      [NoReq EXCEPT !.kind = "status",
                                    !.status = IF status \in FORBIDDEN_TARGETS
                                                 THEN status ELSE None]]
                /\ loc' = [loc EXCEPT ![p] = NoLoc]
           ELSE /\ pc' = [pc EXCEPT ![p] = "write_status"]
                /\ resp' = [resp EXCEPT ![p] = None]
                /\ req' = [req EXCEPT ![p] =
                      [NoReq EXCEPT !.kind = "status", !.user = user,
                                    !.role = role, !.order = o, !.status = status]]
                /\ loc' = [loc EXCEPT ![p] =
                      [NoLoc EXCEPT !.order_status = order_status[o],
                                    !.dp = delivery_partner_id[o]]]
  /\ UNCHANGED <<dbvars, pay_lock>>

\* mutant: the history row records the status the order is leaving
update_order_status_OldStatus(o, new_status, updated_by, new_dp) ==
  /\ order_status' = [order_status EXCEPT ![o] = new_status]
  /\ delivery_partner_id' = [delivery_partner_id EXCEPT ![o] = new_dp]
  /\ history' = [history EXCEPT ![o] =
        Append(@, [status |-> order_status[o], updated_by_id |-> updated_by])]

\* UPDATE of the changed columns of the order row, INSERT of the history
\* row, session.commit()
update_order_status(o, new_status, updated_by, new_dp) ==
  /\ order_status' = [order_status EXCEPT ![o] = new_status]
  /\ delivery_partner_id' = [delivery_partner_id EXCEPT ![o] = new_dp]
  /\ history' = [history EXCEPT ![o] =
        Append(@, [status |-> new_status, updated_by_id |-> updated_by])]

UpdateStatusWrite(p) ==
  /\ UNCHANGED ckvars
  /\ UNCHANGED stvars
  /\ UNCHANGED feevars
  /\ UNCHANGED payvars
  /\ UNCHANGED cartvars
  /\ UNCHANGED notifyvars
  /\ pc[p] = "write_status"
  /\ update_order_status(req[p].order, req[p].status, req[p].user,
                         delivery_partner_id[req[p].order])
  /\ pc' = [pc EXCEPT ![p] = "done"]
  /\ resp' = [resp EXCEPT ![p] = "200"]
  /\ UNCHANGED <<payment_status, razorpay_payment_id, payment_coupon, used_count,
                 cart_items, buyer_type, pay_lock, req, loc>>

\* mutant: a claim check that does not look at the order's status
ClaimReject_AnyStatus(role, status, dp) ==
  IF role = None THEN "400"
  ELSE IF role # "delivery_partner" THEN "403"
  ELSE IF dp # None THEN "400"
  ELSE None

\* HTTP status with which claim_delivery rejects the request, or None
ClaimReject(role, status, dp) ==
  IF role = None THEN "400"
  ELSE IF role # "delivery_partner" THEN "403"
  ELSE IF status # "READY_TO_SHIP" \/ dp # None THEN "400"
  ELSE None

\* require_role(DELIVERY_PARTNER), load the order, check it is claimable.
claim_delivery(p, user, role, o) ==
  /\ UNCHANGED ckvars
  /\ UNCHANGED stvars
  /\ UNCHANGED feevars
  /\ UNCHANGED payvars
  /\ UNCHANGED cartvars
  /\ UNCHANGED notifyvars
  /\ LET reject == ClaimReject(role, order_status[o], delivery_partner_id[o]) IN
       IF reject # None
         THEN /\ pc' = [pc EXCEPT ![p] = "done"]
              /\ resp' = [resp EXCEPT ![p] = reject]
              /\ req' = [req EXCEPT ![p] = [NoReq EXCEPT !.kind = "claim"]]
              /\ loc' = [loc EXCEPT ![p] = NoLoc]
         ELSE /\ pc' = [pc EXCEPT ![p] = "write_claim"]
              /\ resp' = [resp EXCEPT ![p] = None]
              /\ req' = [req EXCEPT ![p] =
                    [NoReq EXCEPT !.kind = "claim", !.user = user,
                                  !.role = role, !.order = o]]
              /\ loc' = [loc EXCEPT ![p] =
                    [NoLoc EXCEPT !.order_status = order_status[o],
                                  !.dp = delivery_partner_id[o]]]
  /\ UNCHANGED <<dbvars, pay_lock>>

\* order.delivery_partner_id = caller; update_order_status(..., ASSIGNED)
ClaimWrite(p) ==
  /\ UNCHANGED ckvars
  /\ UNCHANGED stvars
  /\ UNCHANGED feevars
  /\ UNCHANGED payvars
  /\ UNCHANGED cartvars
  /\ UNCHANGED notifyvars
  /\ pc[p] = "write_claim"
  /\ update_order_status(req[p].order, "DELIVERY_PARTNER_ASSIGNED", req[p].user,
                         req[p].user)
  /\ pc' = [pc EXCEPT ![p] = "done"]
  /\ resp' = [resp EXCEPT ![p] = "200"]
  /\ UNCHANGED <<payment_status, razorpay_payment_id, payment_coupon, used_count,
                 cart_items, buyer_type, pay_lock, req, loc>>

\* A request dies with an error between two statements (lost connection,
\* killed worker): the session closes, its uncommitted writes roll back and
\* its row locks are released; what it committed before stays.
SessionClosedOnError(p) ==
  /\ UNCHANGED ckvars
  /\ UNCHANGED stvars
  /\ UNCHANGED feevars
  /\ UNCHANGED payvars
  /\ UNCHANGED cartvars
  /\ UNCHANGED notifyvars
  /\ InFlight(p)
  /\ pay_lock' = ReleasedLock(p)
  /\ pc' = [pc EXCEPT ![p] = "done"]
  /\ resp' = [resp EXCEPT ![p] = "500"]
  /\ UNCHANGED <<dbvars, req, loc>>

\* ------------------------------------------------------------------------
\* POST /orders/checkout: create_orders_from_cart
\* ------------------------------------------------------------------------

Products == {"prod_a", "prod_b"}

\* User.active_address_id of the sellers
SellerActiveAddress(seller) == IF seller = "seller1" THEN "addr_s1" ELSE "addr_s2"

RetailProduct(seller, address) ==
  [seller_id |-> seller, seller_type |-> "retailer", is_active |-> TRUE,
   deleted |-> FALSE, address_id |-> address, tiers |-> {"customer"}]

\* prod_a is a retail product of seller1; prod_b is one of: a second product
\* of seller1 at the same pickup, one at its own address, a product of
\* seller2, an inactive one, a soft-deleted one, a wholesale one, and one
\* without an active pricing tier
ProductVariants ==
  {RetailProduct("seller1", None),
   RetailProduct("seller1", "addr_b"),
   RetailProduct("seller2", None),
   [RetailProduct("seller2", None) EXCEPT !.is_active = FALSE],
   [RetailProduct("seller2", None) EXCEPT !.deleted = TRUE],
   [RetailProduct("seller2", None) EXCEPT !.seller_type = "wholesaler",
                                          !.tiers = {"retailer"}],
   [RetailProduct("seller2", None) EXCEPT !.tiers = {}]}

CartLines == [product : Products, quantity : 1..MaxQty]

\* carts hold each product in at most one line
Carts ==
  {<<>>} \cup {<<l>> : l \in CartLines}
         \cup {c \in CartLines \X CartLines : c[1].product # c[2].product}

\* the buyers, and the buyer whose requests a session serves
Buyers == {buyer_id, "buyer2"}
BuyerOf(p) == IF p = "w1" THEN buyer_id ELSE "buyer2"

\* no cart-accessing request
NoCartReq == [pc |-> "idle", route |-> None, user_id |-> None]

\* the route has not got past create_orders_from_cart
NoCheckoutReq == [pc |-> "idle", status |-> None, cart |-> <<>>]

NoCheckout ==
  [pc |-> "idle", role |-> None, cart |-> <<>>, groups |-> <<>>, g |-> 0, i |-> 0,
   seen |-> <<>>, new_orders |-> <<>>, new_stock |-> <<>>, result |-> None]

InitCheckout(variants, stocks) ==
  /\ catalog \in {[prod \in Products |->
                     IF prod = "prod_a" THEN RetailProduct("seller1", None) ELSE v] :
                  v \in variants}
  /\ stock \in [Products -> stocks]
  /\ initial_stock = stock
  /\ inv_lock = [prod \in Products |-> NoProc]
  /\ placed = <<>>
  /\ ck = [p \in Procs |-> NoCheckout]
  /\ payments = <<>>
  /\ checkout_req = [p \in Procs |-> NoCheckoutReq]
  /\ cart_cleared_by = {}
  /\ cart_lines = [u \in Buyers |-> <<>>]
  /\ carts = [u \in Buyers |-> 1]
  /\ cart_req = [p \in Procs |-> NoCartReq]
  /\ emails = {}

_buyer_type_for_user(role) == IF role = "retailer" THEN "retailer" ELSE "customer"

\* (lat, lon, pickup_address_id): the id of the product's own address, else
\* of the seller's active address
_get_pickup_coords_for_product(row) ==
  IF row.address_id # None THEN row.address_id
  ELSE SellerActiveAddress(row.seller_id)

\* the ValueError the grouping loop raises for one cart line, or None
CartLineError(row, btype) ==
  IF ~row.is_active \/ row.deleted THEN "Product not available in cart"
  ELSE IF row.seller_type = "retailer" /\ btype # "customer"
    THEN "Retail products can be purchased only by customers"
  ELSE IF row.seller_type = "wholesaler" /\ btype # "retailer"
    THEN "Wholesale products can be purchased only by retailers"
  ELSE None

RECURSIVE FirstCartError(_, _, _)
\* the error of the first offending line, in cart order
FirstCartError(cart, cat, btype) ==
  IF cart = <<>> THEN None
  ELSE LET e == CartLineError(cat[Head(cart).product], btype)
       IN  IF e # None THEN e ELSE FirstCartError(Tail(cart), cat, btype)

\* mutant: every cart line opens a group of its own
AppendToGroup_AlwaysNew(groups, seller, pickup, line) ==
  Append(groups, [seller_id |-> seller, pickup |-> pickup, items |-> <<line>>])

\* groups[(seller_id, pickup_addr_id)].append(line): a dict in insertion order
AppendToGroup(groups, seller, pickup, line) ==
  IF \E k \in 1..Len(groups) : groups[k].seller_id = seller /\ groups[k].pickup = pickup
    THEN [k \in 1..Len(groups) |->
            IF groups[k].seller_id = seller /\ groups[k].pickup = pickup
              THEN [groups[k] EXCEPT !.items = Append(@, line)]
              ELSE groups[k]]
    ELSE Append(groups, [seller_id |-> seller, pickup |-> pickup, items |-> <<line>>])

RECURSIVE GroupCart(_, _, _)
GroupCart(cart, cat, groups) ==
  IF cart = <<>> THEN groups
  ELSE LET row == cat[Head(cart).product]
       IN  GroupCart(Tail(cart), cat,
                     AppendToGroup(groups, row.seller_id,
                                   _get_pickup_coords_for_product(row), Head(cart)))

\* mutant: a failing checkout that keeps what it had flushed
CheckoutFails_KeepFlushed(p, message) ==
  /\ ck' = [ck EXCEPT ![p].pc = "done", ![p].result = message]
  /\ inv_lock' = [prod \in Products |->
                    IF inv_lock[prod] = p THEN NoProc ELSE inv_lock[prod]]
  /\ placed' = placed \o ck[p].new_orders
  /\ stock' = [prod \in Products |->
                 IF prod \in DOMAIN ck[p].new_stock THEN ck[p].new_stock[prod]
                 ELSE stock[prod]]
  /\ UNCHANGED <<catalog, initial_stock>>

\* the request ends with an error: the session closes, the flushed orders and
\* stock writes roll back and the inventory row locks are released
CheckoutFails(p, message) ==
  /\ ck' = [ck EXCEPT ![p].pc = "done", ![p].result = message,
                      ![p].new_orders = <<>>, ![p].new_stock = <<>>]
  /\ inv_lock' = [prod \in Products |->
                    IF inv_lock[prod] = p THEN NoProc ELSE inv_lock[prod]]
  /\ UNCHANGED <<catalog, stock, initial_stock, placed>>

\* Load the cart, check the delivery address, validate and group the lines.
create_orders_from_cart(p, role, cart, address_ok) ==
  /\ UNCHANGED lifevars
  /\ UNCHANGED stvars
  /\ UNCHANGED feevars
  /\ UNCHANGED payvars
  /\ UNCHANGED cartvars
  /\ UNCHANGED notifyvars
  /\ ck[p].pc = "idle"
  /\ LET btype == _buyer_type_for_user(role)
         error == IF cart = <<>> THEN "Cart is empty"
                  ELSE IF ~address_ok THEN "Invalid delivery address"
                  ELSE FirstCartError(cart, catalog, btype)
     IN  IF error # None
           THEN /\ ck' = [ck EXCEPT ![p] = [NoCheckout EXCEPT !.pc = "done",
                                              !.role = role, !.result = error]]
                /\ UNCHANGED <<catalog, stock, initial_stock, inv_lock, placed>>
           ELSE /\ ck' = [ck EXCEPT ![p] = [NoCheckout EXCEPT !.pc = "lock",
                            !.role = role, !.cart = cart,
                            !.groups = GroupCart(cart, catalog, <<>>),
                            !.g = 1, !.i = 1]]
                /\ UNCHANGED <<catalog, stock, initial_stock, inv_lock, placed>>

\* mutant: a plain SELECT, which never waits
LockAvailable_NoForUpdate(p, prod) == TRUE

\* SELECT ... FOR UPDATE returns once no other transaction holds the row
LockAvailable(p, prod) == inv_lock[prod] \in {NoProc, p}

\* Lock and read the inventory row of the next line of the group, check the
\* stock and the pricing tier.
CheckoutLockItem(p) ==
  /\ UNCHANGED lifevars
  /\ UNCHANGED stvars
  /\ UNCHANGED feevars
  /\ UNCHANGED payvars
  /\ UNCHANGED cartvars
  /\ UNCHANGED notifyvars
  /\ ck[p].pc = "lock"
  /\ LET line == ck[p].groups[ck[p].g].items[ck[p].i]
         prod == line.product
         btype == _buyer_type_for_user(ck[p].role)
     IN  /\ LockAvailable(p, prod)
         /\ IF stock[prod] < line.quantity
              THEN CheckoutFails(p, "Insufficient stock for one or more items")
            ELSE IF btype \notin catalog[prod].tiers
              THEN CheckoutFails(p, "Pricing not available for buyer type")
            ELSE /\ inv_lock' = [inv_lock EXCEPT ![prod] = p]
                 /\ ck' = [ck EXCEPT
                      ![p].seen = (prod :> stock[prod]) @@ @,
                      ![p].i = @ + 1,
                      ![p].pc = IF ck[p].i < Len(ck[p].groups[ck[p].g].items)
                                  THEN "lock" ELSE "flush"]
                 /\ UNCHANGED <<catalog, stock, initial_stock, placed>>

RECURSIVE Decrement(_, _, _)
\* inv.stock_quantity -= it.quantity for every line of the group
Decrement(items, seen, new_stock) ==
  IF items = <<>> THEN new_stock
  ELSE LET prod == Head(items).product
           have == IF prod \in DOMAIN new_stock THEN new_stock[prod] ELSE seen[prod]
       IN  Decrement(Tail(items), seen,
                     (prod :> (have - Head(items).quantity)) @@ new_stock)

\* session.add(order); session.flush(); add the order items; decrement the
\* inventory of the group; go on with the next group
CheckoutFlushGroup(p) ==
  /\ UNCHANGED lifevars
  /\ UNCHANGED stvars
  /\ UNCHANGED feevars
  /\ UNCHANGED payvars
  /\ UNCHANGED cartvars
  /\ UNCHANGED notifyvars
  /\ ck[p].pc = "flush"
  /\ LET grp == ck[p].groups[ck[p].g]
         order == [buyer |-> p, seller_id |-> grp.seller_id, pickup |-> grp.pickup,
                   order_status |-> "PENDING", items |-> grp.items,
                   payment_id |-> None]
         last == ck[p].g = Len(ck[p].groups)
     IN  ck' = [ck EXCEPT
                  ![p].new_orders = Append(@, order),
                  ![p].new_stock = Decrement(grp.items, ck[p].seen, @),
                  ![p].g = IF last THEN @ ELSE @ + 1,
                  ![p].i = 1,
                  ![p].pc = IF last THEN "commit" ELSE "lock"]
  /\ UNCHANGED <<catalog, stock, initial_stock, inv_lock, placed>>

\* session.commit(): orders, order items and stock become visible together
\* and the row locks are released
CheckoutCommit(p) ==
  /\ UNCHANGED lifevars
  /\ UNCHANGED stvars
  /\ UNCHANGED feevars
  /\ UNCHANGED payvars
  /\ UNCHANGED cartvars
  /\ UNCHANGED notifyvars
  /\ ck[p].pc = "commit"
  /\ placed' = placed \o ck[p].new_orders
  /\ stock' = [prod \in Products |->
                 IF prod \in DOMAIN ck[p].new_stock THEN ck[p].new_stock[prod]
                 ELSE stock[prod]]
  /\ inv_lock' = [prod \in Products |->
                    IF inv_lock[prod] = p THEN NoProc ELSE inv_lock[prod]]
  /\ ck' = [ck EXCEPT ![p].pc = "done", ![p].result = "ok"]
  /\ UNCHANGED <<catalog, initial_stock>>

\* the product whose row lock session p is waiting for, or None
WaitsFor(p) ==
  IF ck[p].pc # "lock" THEN None
  ELSE LET prod == ck[p].groups[ck[p].g].items[ck[p].i].product
       IN  IF LockAvailable(p, prod) THEN None ELSE prod

\* Two checkouts wait for each other's row lock: the database detects the
\* deadlock and aborts one of them with an error.
CheckoutDeadlock(p) ==
  /\ UNCHANGED lifevars
  /\ UNCHANGED stvars
  /\ UNCHANGED feevars
  /\ UNCHANGED payvars
  /\ UNCHANGED cartvars
  /\ UNCHANGED notifyvars
  /\ WaitsFor(p) # None
  /\ \E q \in Procs \ {p} :
       /\ inv_lock[WaitsFor(p)] = q
       /\ WaitsFor(q) # None
       /\ inv_lock[WaitsFor(q)] = p
  /\ CheckoutFails(p, "deadlock detected")

\* ------------------------------------------------------------------------
\* POST /orders/checkout: create_unified_payment_for_orders and clear_cart
\* ------------------------------------------------------------------------

\* o.payment_id = payment.id for the orders create_orders_from_cart returned
StampPayment(orders, p, id) ==
  [k \in 1..Len(orders) |->
     IF orders[k].buyer = p /\ orders[k].payment_id = None
       THEN [orders[k] EXCEPT !.payment_id = id]
       ELSE orders[k]]

\* create_razorpay_order raises (no keys configured, transport error or an
\* error status): the exception is no ValueError, leaves the route and the
\* request ends with an error; the orders were committed before the call
GatewayFails(p) ==
  /\ checkout_req' = [checkout_req EXCEPT ![p] =
                        [pc |-> "done", status |-> "500", cart |-> ck[p].cart]]
  /\ UNCHANGED <<ckvars, payments>>

\* The orders are committed; ask the gateway for an order of the total
\* amount, insert the Payment, stamp its id on the orders and commit.
create_unified_payment_for_orders(p, gateway_ok) ==
  /\ UNCHANGED lifevars
  /\ UNCHANGED stvars
  /\ UNCHANGED feevars
  /\ UNCHANGED cartvars
  /\ UNCHANGED notifyvars
  /\ ck[p].pc = "done" /\ ck[p].result = "ok"
  /\ checkout_req[p].pc = "idle"
  /\ IF ~gateway_ok THEN GatewayFails(p)
     ELSE LET id == "pay_" \o ToString(Len(payments) + 1)
          IN  /\ payments' = Append(payments,
                    [id |-> id, buyer_id |-> p, status |-> "pending",
                     razorpay_order_id |-> "order_" \o ToString(Len(payments) + 1)])
              /\ placed' = StampPayment(placed, p, id)
              /\ checkout_req' = [checkout_req EXCEPT ![p] =
                    [pc |-> "clear", status |-> None, cart |-> ck[p].cart]]
              /\ UNCHANGED <<catalog, stock, initial_stock, inv_lock, ck>>

\* clear_cart(session, user_id): delete the cart items, commit, and answer
\* with the payment and the orders
CheckoutClearCart(p) ==
  /\ UNCHANGED lifevars
  /\ UNCHANGED ckvars
  /\ UNCHANGED stvars
  /\ UNCHANGED feevars
  /\ UNCHANGED notifyvars
  /\ checkout_req[p].pc = "clear"
  /\ checkout_req' = [checkout_req EXCEPT ![p] =
                        [pc |-> "done", status |-> "200", cart |-> <<>>]]
  /\ cart_cleared_by' = cart_cleared_by \cup {"checkout"}
  /\ cart_lines' = [cart_lines EXCEPT ![BuyerOf(p)] = <<>>]
  /\ UNCHANGED <<carts, cart_req, payments>>

\* ------------------------------------------------------------------------
\* Cart: add_to_cart, update_cart_item_quantity, remove_from_cart, clear_cart
\* and the seller's update_inventory
\* ------------------------------------------------------------------------

\* no checkout of the buyer's is between its first read and its response
NoCheckoutInFlight(p) ==
  /\ ck[p].pc \in {"idle", "done"}
  /\ checkout_req[p].pc \in {"idle", "done"}
  /\ ~(ck[p].pc = "done" /\ ck[p].result = "ok" /\ checkout_req[p].pc = "idle")

\* _determine_buyer_type_for_purchase raises PermissionError
PurchaseForbidden(role, row) ==
  IF row.seller_type = "retailer" THEN role \notin {None, "customer"}
  ELSE role # "retailer"

\* the error add_to_cart raises, or None
AddToCartError(role, prod, quantity) ==
  IF quantity < 1 THEN "Quantity must be at least 1"
  ELSE IF catalog[prod].deleted \/ ~catalog[prod].is_active THEN "Product not available"
  ELSE IF PurchaseForbidden(role, catalog[prod]) THEN "PermissionError"
  ELSE IF stock[prod] <= 0 THEN "Product out of stock"
  ELSE None

Min(a, b) == IF a < b THEN a ELSE b

\* the cart with the quantity added to the product's line, or with a new
\* line for it, capped at the stock
AddedToCart(lines, prod, quantity) ==
  IF \E n \in 1..Len(lines) : lines[n].product = prod
    THEN LET n == CHOOSE k \in 1..Len(lines) : lines[k].product = prod
         IN  [lines EXCEPT ![n].quantity = Min(@ + quantity, stock[prod])]
    ELSE Append(lines, [product |-> prod, quantity |-> Min(quantity, stock[prod])])

add_to_cart(p, role, prod, quantity) ==
  /\ UNCHANGED lifevars
  /\ UNCHANGED ckvars
  /\ UNCHANGED stvars
  /\ UNCHANGED feevars
  /\ UNCHANGED payvars
  /\ UNCHANGED notifyvars
  /\ NoCheckoutInFlight(p)
  /\ cart_lines' =
       IF AddToCartError(role, prod, quantity) # None THEN cart_lines
       ELSE [cart_lines EXCEPT ![BuyerOf(p)] = AddedToCart(@, prod, quantity)]
  /\ UNCHANGED <<cart_cleared_by, carts, cart_req>>

\* the error update_cart_item_quantity raises, or None
UpdateQuantityError(lines, n, quantity) ==
  IF quantity < 1 THEN "Quantity must be at least 1"
  ELSE IF n \notin 1..Len(lines) THEN "Cart item not found"
  ELSE IF catalog[lines[n].product].deleted \/ ~catalog[lines[n].product].is_active
    THEN "Product not available"
  ELSE None

update_cart_item_quantity(p, n, quantity) ==
  /\ UNCHANGED lifevars
  /\ UNCHANGED ckvars
  /\ UNCHANGED stvars
  /\ UNCHANGED feevars
  /\ UNCHANGED payvars
  /\ UNCHANGED notifyvars
  /\ NoCheckoutInFlight(p)
  /\ LET lines == cart_lines[BuyerOf(p)]
     IN  cart_lines' =
           IF UpdateQuantityError(lines, n, quantity) # None THEN cart_lines
           ELSE [cart_lines EXCEPT ![BuyerOf(p)][n].quantity =
                   Min(quantity, stock[lines[n].product])]
  /\ UNCHANGED <<cart_cleared_by, carts, cart_req>>

remove_from_cart(p, n) ==
  /\ UNCHANGED lifevars
  /\ UNCHANGED ckvars
  /\ UNCHANGED stvars
  /\ UNCHANGED feevars
  /\ UNCHANGED payvars
  /\ UNCHANGED notifyvars
  /\ NoCheckoutInFlight(p)
  /\ LET lines == cart_lines[BuyerOf(p)]
     IN  cart_lines' =
           IF n \notin 1..Len(lines) THEN cart_lines
           ELSE [cart_lines EXCEPT ![BuyerOf(p)] =
                   SubSeq(lines, 1, n - 1) \o SubSeq(lines, n + 1, Len(lines))]
  /\ UNCHANGED <<cart_cleared_by, carts, cart_req>>

\* DELETE /cart/
ClearCartRoute(p) ==
  /\ UNCHANGED lifevars
  /\ UNCHANGED ckvars
  /\ UNCHANGED stvars
  /\ UNCHANGED feevars
  /\ UNCHANGED payvars
  /\ UNCHANGED notifyvars
  /\ NoCheckoutInFlight(p)
  /\ cart_lines' = [cart_lines EXCEPT ![BuyerOf(p)] = <<>>]
  /\ UNCHANGED <<cart_cleared_by, carts, cart_req>>

\* PricingTier.min_quantity of the products' tiers (the default)
TierMinQuantity == 1

\* The seller sets the stock; a value below the min_quantity of an active
\* pricing tier is refused.  The UPDATE waits for a checkout's row lock.
update_inventory(prod, stock_quantity) ==
  /\ UNCHANGED lifevars
  /\ UNCHANGED stvars
  /\ UNCHANGED feevars
  /\ UNCHANGED payvars
  /\ UNCHANGED cartvars
  /\ UNCHANGED notifyvars
  /\ inv_lock[prod] = NoProc
  /\ stock' = IF catalog[prod].tiers # {} /\ TierMinQuantity > stock_quantity
                THEN stock
                ELSE [stock EXCEPT ![prod] = stock_quantity]
  /\ UNCHANGED <<catalog, initial_stock, inv_lock, placed, ck>>

\* ------------------------------------------------------------------------
\* Lazy cart creation: get_or_create_cart
\* ------------------------------------------------------------------------

\* the routes whose first step is get_or_create_cart
CartRoutes == {"get_cart", "add_item", "clear_cart"}

\* SELECT ... WHERE user_id = :user_id returns a row
CartFound(user) == carts[user] > 0

\* A request of the user reaches get_or_create_cart and looks the cart up.
get_or_create_cart(p, route, user) ==
  /\ UNCHANGED lifevars
  /\ UNCHANGED ckvars
  /\ UNCHANGED stvars
  /\ UNCHANGED feevars
  /\ UNCHANGED payvars
  /\ UNCHANGED notifyvars
  /\ cart_req[p].pc \in {"idle", "done"}
  /\ cart_req' = [cart_req EXCEPT ![p] =
        [pc |-> IF CartFound(user) THEN "done" ELSE "create",
         route |-> route, user_id |-> user]]
  /\ UNCHANGED <<cart_cleared_by, cart_lines, carts>>

\* cart = Cart(user_id=user_id); session.add(cart); session.commit()
CartCreate(p) ==
  /\ UNCHANGED lifevars
  /\ UNCHANGED ckvars
  /\ UNCHANGED stvars
  /\ UNCHANGED feevars
  /\ UNCHANGED payvars
  /\ UNCHANGED notifyvars
  /\ cart_req[p].pc = "create"
  /\ carts' = [carts EXCEPT ![cart_req[p].user_id] = @ + 1]
  /\ cart_req' = [cart_req EXCEPT ![p].pc = "done"]
  /\ UNCHANGED <<cart_cleared_by, cart_lines>>

\* ------------------------------------------------------------------------
\* POST /payments/settlements: create_settlement
\* ------------------------------------------------------------------------

\* an order id that names no Order row
MissingOrder == NumOrders + 1

\* a user id that names no User row
MissingUser == "ghost"

\* UserRole rows of the users
has_role(user, role) ==
  \/ user = "seller1" /\ role = "retailer"
  \/ user = "seller2" /\ role = "wholesaler"
  \/ user \in {"dp1", "dp2"} /\ role = "delivery_partner"
  \/ user = "buyer" /\ role = "customer"

\* the primary user type stored with the settlement
SettlementUserType(user) ==
  LET first == IF has_role(user, "delivery_partner") THEN "delivery_partner"
               ELSE "seller"
  IN  IF has_role(user, "retailer") \/ has_role(user, "wholesaler") THEN "seller"
      ELSE first

NoSettle ==
  [pc |-> "idle", user |-> None, order_ids |-> <<>>, i |-> 0, orders |-> <<>>,
   total_amount |-> 0, result |-> None]

\* no order has been priced
NoQuote == [lines |-> <<>>, has_coords |-> FALSE, km |-> 0, fee |-> 0,
            delivery_fee |-> 0, order_subtotal |-> 0, order_total |-> 0]

\* no payout has been computed
NoPayout == [path |-> None, gross |-> 0, amount |-> 0,
             commission_amount |-> 0, net_amount |-> 0]

\* the pending settlements have not been asked for
NoPending == [computed |-> FALSE, records |-> <<>>, pending_settlement_count |-> 0]

\* an order of subtotal 20.00 and delivery fee 10.00
PaidAmounts == [original_subtotal |-> 2000, delivery_fee |-> 1000]

InitSettlement ==
  /\ quote = NoQuote
  /\ payout = NoPayout
  /\ order_amounts = [o \in Orders |-> PaidAmounts]
  /\ pending = NoPending
  /\ settlement_id = [o \in Orders |-> None]
  /\ settlements = <<>>
  /\ st = [p \in Procs |-> NoSettle]

\* mutant: validation that does not look at settlement_id
SettleOrderError_IgnoreSettled(o, user, settled) ==
  IF o \notin Orders THEN "not found"
  ELSE IF seller_id(o) = user
    THEN IF order_status[o] \notin {"CONFIRMED", "DELIVERED"}
           THEN "is not in a settleable status" ELSE None
  ELSE IF delivery_partner_id[o] = user
    THEN IF order_status[o] # "DELIVERED" THEN "is not delivered" ELSE None
  ELSE "does not belong to this user"

\* mutant: validation that does not look at the order's status
SettleOrderError_AnyStatus(o, user, settled) ==
  IF o \notin Orders THEN "not found"
  ELSE IF settled # None THEN "is already settled"
  ELSE IF seller_id(o) = user THEN None
  ELSE IF delivery_partner_id[o] = user THEN None
  ELSE "does not belong to this user"

\* the ValueError the validation loop raises for one listed order, from the
\* row the session holds of it, or None when the order joins the batch
SettleOrderError(o, user, settled) ==
  IF o \notin Orders THEN "not found"
  ELSE IF settled # None THEN "is already settled"
  ELSE IF seller_id(o) = user
    THEN IF order_status[o] \notin {"CONFIRMED", "DELIVERED"}
           THEN "is not in a settleable status" ELSE None
  ELSE IF delivery_partner_id[o] = user
    THEN IF order_status[o] # "DELIVERED" THEN "is not delivered" ELSE None
  ELSE "does not belong to this user"

\* the request ends with a ValueError: nothing was flushed, nothing stays
SettleFails(p, message) ==
  /\ st' = [st EXCEPT ![p] = [NoSettle EXCEPT !.pc = "done", !.result = message,
                                                !.i = st[p].i]]
  /\ UNCHANGED <<settlement_id, settlements>>

\* Look the payee up and start the validation loop.
create_settlement(p, user, order_ids) ==
  /\ UNCHANGED lifevars
  /\ UNCHANGED ckvars
  /\ UNCHANGED feevars
  /\ UNCHANGED payvars
  /\ UNCHANGED cartvars
  /\ UNCHANGED notifyvars
  /\ st[p].pc \in {"idle", "done"}
  /\ IF user = MissingUser
       THEN SettleFails(p, "User not found")
       ELSE /\ st' = [st EXCEPT ![p] = [NoSettle EXCEPT !.pc = "read", !.user = user,
                                           !.order_ids = order_ids, !.i = 1]]
            /\ UNCHANGED <<settlement_id, settlements>>

\* the amount a listed order adds to total_amount: original_subtotal in the
\* seller branch, delivery_fee in the delivery partner branch
OrderAmountFor(o, user) ==
  IF seller_id(o) = user THEN order_amounts[o].original_subtotal
  ELSE order_amounts[o].delivery_fee

\* session.get(Order, order_id) and the checks on it.  An order the session
\* has loaded before comes from its identity map, as it was first read.
SettleReadOrder(p) ==
  /\ UNCHANGED lifevars
  /\ UNCHANGED ckvars
  /\ UNCHANGED feevars
  /\ UNCHANGED payvars
  /\ UNCHANGED cartvars
  /\ UNCHANGED notifyvars
  /\ st[p].pc = "read"
  /\ LET o == st[p].order_ids[st[p].i]
         loaded == \E k \in 1..Len(st[p].orders) : st[p].orders[k] = o
         settled == IF o \notin Orders \/ loaded THEN None ELSE settlement_id[o]
         error == SettleOrderError(o, st[p].user, settled)
     IN  IF error # None
           THEN SettleFails(p, error)
           ELSE /\ st' = [st EXCEPT
                     ![p].orders = Append(@, o),
                     ![p].total_amount = @ + OrderAmountFor(o, st[p].user),
                     ![p].i = @ + 1,
                     ![p].pc = IF st[p].i < Len(st[p].order_ids) THEN "read"
                               ELSE "commit"]
                /\ UNCHANGED <<settlement_id, settlements>>

\* Gross totals are sums of Numeric(10, 2) columns, in paise.
\* the commission rate, in hundredths
COMMISSION_RATE == 5
Hundred == 100

\* mutant: the commission cut off at the cent
commission_amount_RoundDown(total) == (total * COMMISSION_RATE) \div Hundred

\* (total * COMMISSION_RATE).quantize(Decimal("0.01")), ROUND_HALF_EVEN
commission_amount(total) ==
  LET n == total * COMMISSION_RATE
      q == n \div Hundred
      r == n % Hundred
  IN  IF 2 * r < Hundred THEN q
      ELSE IF 2 * r > Hundred THEN q + 1
      ELSE IF q % 2 = 0 THEN q ELSE q + 1

\* (total - commission).quantize(Decimal("0.01")): both have two decimals
net_amount(total, commission) == total - commission

\* INSERT of the PaymentSettlement row, UPDATE of settlement_id on every
\* order of the batch, session.commit()
SettleCommit(p) ==
  /\ UNCHANGED lifevars
  /\ UNCHANGED ckvars
  /\ UNCHANGED feevars
  /\ UNCHANGED payvars
  /\ UNCHANGED cartvars
  /\ UNCHANGED notifyvars
  /\ st[p].pc = "commit"
  /\ LET id == "stl_" \o ToString(Len(settlements) + 1)
         commission == commission_amount(st[p].total_amount)
         row == [id |-> id, user_id |-> st[p].user,
                 user_type |-> SettlementUserType(st[p].user),
                 amount |-> st[p].total_amount,
                 commission_amount |-> commission,
                 net_amount |-> net_amount(st[p].total_amount, commission),
                 order_ids |-> st[p].order_ids]
     IN  /\ settlements' = Append(settlements, row)
         /\ settlement_id' = [o \in Orders |->
               IF \E k \in 1..Len(st[p].orders) : st[p].orders[k] = o
                 THEN id ELSE settlement_id[o]]
  /\ st' = [st EXCEPT ![p].pc = "done", ![p].result = "ok"]

\* ------------------------------------------------------------------------
\* create_orders_from_cart: the amounts of the order of one cart group
\* ------------------------------------------------------------------------
\* Decimal amounts are integers here: money in thousandths of a rupee and
\* distances in thousandths of a kilometre; stored columns are in paise.

BASE_DELIVERY_FEE == 10
PER_KM_FEE == 1

\* thousandths in a rupee (and in a kilometre), thousandths in a paisa
Thousand == 1000
PaisaThousandths == 10

\* Decimal.quantize(Decimal("0.01")) under the default ROUND_HALF_EVEN:
\* thousandths of a rupee to paise
quantize(amount) ==
  LET q == amount \div PaisaThousandths
      r == amount % PaisaThousandths
  IN  IF 2 * r < PaisaThousandths THEN q
      ELSE IF 2 * r > PaisaThousandths THEN q + 1
      ELSE IF q % 2 = 0 THEN q ELSE q + 1

RECURSIVE order_subtotal(_)
\* sum of price * quantity over the lines; tier prices have two decimals
order_subtotal(lines) ==
  IF lines = <<>> THEN 0
  ELSE Head(lines).price * PaisaThousandths * Head(lines).quantity
       + order_subtotal(Tail(lines))

\* haversine distance of pickup and delivery, 0 without pickup coordinates
distance_km(has_coords, km) == IF has_coords THEN km ELSE 0

raw_fee(km) == BASE_DELIVERY_FEE * Thousand + PER_KM_FEE * km

\* order_subtotal * Decimal("0.5")
fee_cap(subtotal) == (subtotal * 5) \div 10

\* the fee without the cap of half the subtotal
delivery_fee_NoCap(subtotal, km) == raw_fee(km)

delivery_fee(subtotal, km) ==
  IF raw_fee(km) <= fee_cap(subtotal) THEN raw_fee(km) ELSE fee_cap(subtotal)

\* Price the lines of a group, compute the delivery fee and build the Order
\* row with its three quantized amounts.  One group is priced per behaviour.
CheckoutPriceGroup(lines, has_coords, km) ==
  /\ quote = NoQuote
  /\ UNCHANGED lifevars
  /\ UNCHANGED ckvars
  /\ UNCHANGED stvars
  /\ UNCHANGED payvars
  /\ UNCHANGED cartvars
  /\ UNCHANGED notifyvars
  /\ LET subtotal == order_subtotal(lines)
         fee == delivery_fee(subtotal, distance_km(has_coords, km))
         total == subtotal + fee
     IN  /\ UNCHANGED <<payout, order_amounts, pending>>
         /\ quote' = [lines |-> lines, has_coords |-> has_coords, km |-> km,
                      fee |-> fee,
                      delivery_fee |-> quantize(fee),
                      order_subtotal |-> quantize(subtotal),
                      order_total |-> quantize(total)]

\* ------------------------------------------------------------------------
\* GET /payments/settlements/pending: get_pending_settlements_by_user
\* ------------------------------------------------------------------------

RECURSIVE SumAmounts(_, _)
\* func.sum of an amount column over the orders of a group
SumAmounts(S, column) ==
  IF S = {} THEN 0
  ELSE LET o == CHOOSE x \in S : TRUE
       IN  order_amounts[o][column] + SumAmounts(S \ {o}, column)

\* mutant: the delivery partner query without the settlement_id filter
DeliveryGroup_WithSettled(user) ==
  {o \in Orders : /\ delivery_partner_id[o] = user
                  /\ order_status[o] = "DELIVERED"}

\* the rows of the seller query and of the delivery partner query that are
\* grouped under one user id
SellerGroup(user) ==
  {o \in Orders : /\ seller_id(o) = user
                  /\ settlement_id[o] = None
                  /\ order_status[o] \in {"CONFIRMED", "DELIVERED"}}

DeliveryGroup(user) ==
  {o \in Orders : /\ delivery_partner_id[o] = user
                  /\ settlement_id[o] = None
                  /\ order_status[o] = "DELIVERED"}

\* a group is merged into user_settlements unless its sum is not positive
SellerMerged(user) ==
  SellerGroup(user) # {} /\ SumAmounts(SellerGroup(user), "original_subtotal") > 0

DeliveryMerged(user) ==
  DeliveryGroup(user) # {} /\ SumAmounts(DeliveryGroup(user), "delivery_fee") > 0

RECURSIVE IdList(_)
\* the ids a query returns for a group, as a list
IdList(S) ==
  IF S = {} THEN <<>>
  ELSE LET o == CHOOSE x \in S : TRUE
       IN  <<o>> \o IdList(S \ {o})

\* the PendingSettlement built for a key of user_settlements: the ids of
\* both groups are appended to one list, and list(set(...)) drops the repeats
PendingSettlement(user) ==
  LET extended == (IF SellerMerged(user) THEN IdList(SellerGroup(user)) ELSE <<>>)
                    \o (IF DeliveryMerged(user)
                          THEN IdList(DeliveryGroup(user)) ELSE <<>>)
      order_ids == {extended[n] : n \in 1..Len(extended)}
      total_amount ==
         (IF SellerMerged(user)
            THEN SumAmounts(SellerGroup(user), "original_subtotal") ELSE 0)
         + (IF DeliveryMerged(user)
              THEN SumAmounts(DeliveryGroup(user), "delivery_fee") ELSE 0)
      commission == commission_amount(total_amount)
  IN  [user_id |-> user,
       total_amount |-> total_amount,
       commission_amount |-> commission,
       net_amount |-> net_amount(total_amount, commission),
       order_count |-> Cardinality(order_ids),
       order_ids |-> order_ids]

\* Run the two grouped queries, merge them per user and build the list and
\* the summary.
get_pending_settlements_by_user ==
  /\ UNCHANGED lifevars
  /\ UNCHANGED ckvars
  /\ UNCHANGED stvars
  /\ UNCHANGED payvars
  /\ UNCHANGED cartvars
  /\ UNCHANGED notifyvars
  /\ ~pending.computed
  /\ LET keys == {u \in Users : SellerMerged(u) \/ DeliveryMerged(u)}
     IN  pending' = [computed |-> TRUE,
                     records |-> [u \in keys |-> PendingSettlement(u)],
                     pending_settlement_count |-> Cardinality(keys)]
  /\ UNCHANGED <<quote, payout, order_amounts>>

\* ------------------------------------------------------------------------
\* Settlement amounts: create_settlement and get_pending_settlements_by_user
\* ------------------------------------------------------------------------
\* Gross totals are sums of Numeric(10, 2) columns, here in paise.

\* create_settlement: amount, commission_amount and net_amount of the row
SettlementAmounts(total) ==
  /\ UNCHANGED lifevars
  /\ UNCHANGED ckvars
  /\ UNCHANGED stvars
  /\ UNCHANGED payvars
  /\ UNCHANGED cartvars
  /\ UNCHANGED notifyvars
  /\ payout = NoPayout
  /\ LET commission == commission_amount(total)
     IN  payout' = [path |-> "settlement", gross |-> total, amount |-> total,
                    commission_amount |-> commission,
                    net_amount |-> net_amount(total, commission)]
  /\ UNCHANGED <<quote, order_amounts, pending>>

\* get_pending_settlements_by_user: the amounts of one user's aggregate
PendingAmounts(total) ==
  /\ UNCHANGED lifevars
  /\ UNCHANGED ckvars
  /\ UNCHANGED stvars
  /\ UNCHANGED payvars
  /\ UNCHANGED cartvars
  /\ UNCHANGED notifyvars
  /\ payout = NoPayout
  /\ LET commission == commission_amount(total)
     IN  payout' = [path |-> "pending", gross |-> total, amount |-> total,
                    commission_amount |-> commission,
                    net_amount |-> net_amount(total, commission)]
  /\ UNCHANGED <<quote, order_amounts, pending>>

\* ------------------------------------------------------------------------
\* Specifications
\* ------------------------------------------------------------------------

ActiveRoles == (RoleEnum \ {"admin"}) \cup {None}

Start(p, limit) ==
  /\ CanStart(p, limit)
  /\ \/ \E e \in WebhookEvents, g \in GatewayOrderIds, i \in GatewayPaymentIds :
          razorpay_webhook(p, e, g, i)
     \/ \E u \in Users, r \in ActiveRoles, o \in Orders, s \in OrderStatus :
          update_status(p, u, r, o, s)
     \/ \E u \in Users, r \in ActiveRoles, o \in Orders :
          claim_delivery(p, u, r, o)

Step(p) ==
  \/ WebhookFlushPayment(p)
  \/ WebhookCoupon(p)
  \/ WebhookClearCart(p)
  \/ WebhookConfirmOrders(p)
  \/ WebhookPaymentFailed(p)
  \/ UpdateStatusWrite(p)
  \/ ClaimWrite(p)

\* ------------------------------------------------------------------------
\* Notification emails: what the handlers do after their commit
\* ------------------------------------------------------------------------

\* the handler of p has committed and has its notifications still to build
TailPending(p) ==
  /\ pc[p] = "done"
  /\ \/ req[p].kind \in {"status", "claim"} /\ resp[p] = "200"
     \/ /\ req[p].kind = "webhook"
        /\ req[p].event = "payment.captured"
        /\ resp[p] = "ok"
        /\ loc[p].payment_status # "completed"

Email(to, template, o, status) ==
  [email_to |-> to, template |-> template, order |-> o, status |-> status,
   state |-> "queued"]

RECURSIVE NewOrderEmails(_)
\* one new-order email to the seller of each order of the payment
NewOrderEmails(n) ==
  IF n = 0 THEN <<>>
  ELSE Append(NewOrderEmails(n - 1), Email(seller_id(n), "new_order", n, "CONFIRMED"))

\* the emails a handler builds after its commit, in the order it builds them;
\* order 0 stands for the summary of all orders of the payment
NotificationEmails(p) ==
  IF req[p].kind = "webhook"
    THEN <<Email(buyer_id, "order_confirmation", 0, "CONFIRMED")>>
           \o NewOrderEmails(NumOrders)
  ELSE IF req[p].kind = "claim"
    THEN <<Email(buyer_id, "delivery_claimed", req[p].order,
                 "DELIVERY_PARTNER_ASSIGNED"),
           Email(seller_id(req[p].order), "delivery_claimed", req[p].order,
                 "DELIVERY_PARTNER_ASSIGNED")>>
  ELSE <<Email(buyer_id, "order_status_update", req[p].order, req[p].status)>>
         \o (IF req[p].status \in {"CANCELLED", "RETURNED", "REFUNDED"}
               THEN <<Email(seller_id(req[p].order), "order_status_update",
                            req[p].order, req[p].status)>>
               ELSE <<>>)

\* mutant: a failure while the emails are built undoes the status change
NotifyOutcome_Rollback(p, built) ==
  IF built = Len(NotificationEmails(p)) \/ req[p].kind = "webhook"
    THEN UNCHANGED dbvars
    ELSE /\ order_status' = [order_status EXCEPT ![req[p].order] = loc[p].order_status]
         /\ UNCHANGED <<payment_status, razorpay_payment_id, payment_coupon,
                        used_count, cart_items, buyer_type, delivery_partner_id,
                        history>>

\* building and queueing the emails writes nothing to the database
NotifyOutcome(p, built) == UNCHANGED dbvars

\* The handler builds its emails one by one and adds each as a background
\* task; `built` of them are built before one fails (all, when none fails).
\* The status and claim routes swallow the failure and answer as before; the
\* webhook answers 500 and its background tasks are dropped with the response.
Notify(p, built) ==
  /\ UNCHANGED ckvars
  /\ UNCHANGED stvars
  /\ UNCHANGED feevars
  /\ UNCHANGED payvars
  /\ UNCHANGED cartvars
  /\ TailPending(p)
  /\ built \in 0..Len(NotificationEmails(p))
  /\ LET failed == built < Len(NotificationEmails(p))
         dropped == failed /\ req[p].kind = "webhook"
     IN  /\ emails' = IF dropped THEN emails
                      ELSE emails \cup {NotificationEmails(p)[n] : n \in 1..built}
         /\ resp' = [resp EXCEPT ![p] = IF dropped THEN "500" ELSE @]
  /\ pc' = [pc EXCEPT ![p] = "idle"]
  /\ NotifyOutcome(p, built)
  /\ UNCHANGED <<pay_lock, req, loc>>

\* A background task runs send_email after the response has gone out; the
\* SMTP delivery succeeds or fails.
BackgroundSend(delivered) ==
  /\ UNCHANGED lifevars
  /\ UNCHANGED ckvars
  /\ UNCHANGED stvars
  /\ UNCHANGED feevars
  /\ UNCHANGED payvars
  /\ UNCHANGED cartvars
  /\ \E e \in emails :
       /\ e.state = "queued"
       /\ emails' = (emails \ {e})
            \cup {[e EXCEPT !.state = IF delivered THEN "sent" ELSE "failed"]}

\* a single worker serves the requests one at a time, each to completion
SeqWorker == "w1"

NextSeq ==
  \/ Start(SeqWorker, MaxAppend)
  \/ Step(SeqWorker)

\* no checkout is under way while the orders of the earlier one are served
\* a customer's checkout paid with a coupon, or a retailer's without one
Init ==
  /\ \/ InitLifecycle({TRUE}, {"customer"})
     \/ InitLifecycle({FALSE}, {"retailer"})
  /\ InitCheckout({RetailProduct("seller2", None)}, {MaxStock})
  /\ InitSettlement

Spec == Init /\ [][NextSeq]_vars


\* Requests interleave statement by statement and may die part-way.  The
\* concurrent requests come from the parties of the order: its seller under
\* the matching role, and the delivery partners.
DeliveryPartners == {"dp1", "dp2"}

StartConc(p) ==
  /\ CanStart(p, MaxAppendConc)
  /\ \/ \E e \in {"payment.captured", "payment.failed"}, i \in GatewayPaymentIds :
          razorpay_webhook(p, e, razorpay_order_id, i)
     \/ \E o \in Orders, s \in OrderStatus :
          update_status(p, seller_id(o), required_seller_role(buyer_type), o, s)
     \/ \E u \in DeliveryPartners, o \in Orders, s \in OrderStatus :
          update_status(p, u, "delivery_partner", o, s)
     \/ \E u \in DeliveryPartners, o \in Orders :
          claim_delivery(p, u, "delivery_partner", o)

NextConc ==
  \E p \in Procs :
    \/ StartConc(p)
    \/ Step(p)
    \/ SessionClosedOnError(p)

SpecConc == Init /\ [][NextConc]_vars

\* Status, cancel and claim requests of the parties of an order, served side
\* by side by two workers; no webhook arrives meanwhile.
StartStatusConc(p) ==
  /\ CanStart(p, MaxAppendConc)
  /\ \/ \E o \in Orders, s \in OrderStatus :
          update_status(p, seller_id(o), required_seller_role(buyer_type), o, s)
     \/ \E u \in DeliveryPartners, o \in Orders, s \in OrderStatus :
          update_status(p, u, "delivery_partner", o, s)
     \/ \E u \in DeliveryPartners, o \in Orders :
          claim_delivery(p, u, "delivery_partner", o)

NextStatusConc ==
  \E p \in Procs :
    \/ StartStatusConc(p)
    \/ UpdateStatusWrite(p)
    \/ ClaimWrite(p)

SpecStatusConc == Init /\ [][NextStatusConc]_vars

\* the requests of the parties, served one at a time, each followed by the
\* notifications its handler builds after the commit and by the background
\* tasks that send them
NextNotify ==
  \/ /\ ~TailPending(SeqWorker)
     /\ StartConc(SeqWorker)
  \/ Step(SeqWorker)
  \/ \E built \in 0..(NumOrders + 1) : Notify(SeqWorker, built)
  \/ \E delivered \in BOOLEAN : BackgroundSend(delivered)

SpecNotify == Init /\ [][NextNotify]_vars

\* the gateway delivers the same payment.captured event again and again,
\* and the deliveries are handled side by side
NextDup ==
  \E p \in Procs :
    \/ /\ CanStart(p, MaxAppendConc)
       /\ \E i \in GatewayPaymentIds :
            razorpay_webhook(p, "payment.captured", razorpay_order_id, i)
    \/ WebhookFlushPayment(p)
    \/ WebhookCoupon(p)
    \/ WebhookClearCart(p)
    \/ WebhookConfirmOrders(p)

\* the checkout was a customer's or a retailer's, paid with or without a coupon
InitDup ==
  /\ InitLifecycle(BOOLEAN, BuyerType)
  /\ InitCheckout({RetailProduct("seller2", None)}, {MaxStock})
  /\ InitSettlement

SpecDup == InitDup /\ [][NextDup]_vars

\* two buyers check out side by side, each from a cart of its own
NextCheckout ==
  \E p \in Procs :
    \/ \E role \in {"customer", "retailer"}, cart \in Carts, ok \in BOOLEAN :
         create_orders_from_cart(p, role, cart, ok)
    \/ CheckoutLockItem(p)
    \/ CheckoutFlushGroup(p)
    \/ CheckoutCommit(p)
    \/ CheckoutDeadlock(p)

InitCk ==
  /\ InitLifecycle({FALSE}, {"customer"})
  /\ InitCheckout(ProductVariants, 0..MaxStock)
  /\ InitSettlement

SpecCheckout == InitCk /\ [][NextCheckout]_vars

\* User.active_role of the caller of POST /orders/checkout: the route asks
\* for a logged-in user and for no role
CheckoutRoles == RoleEnum \cup {None}

\* one checkout, by a user under any active role
NextCheckoutRoles ==
  \/ \E role \in CheckoutRoles, cart \in Carts, ok \in BOOLEAN :
       create_orders_from_cart(SeqWorker, role, cart, ok)
  \/ CheckoutLockItem(SeqWorker)
  \/ CheckoutFlushGroup(SeqWorker)
  \/ CheckoutCommit(SeqWorker)

SpecCheckoutRoles == InitCk /\ [][NextCheckoutRoles]_vars

\* one checkout request from the cart to the response, with a payment
\* gateway that answers or fails
NextCheckoutPay ==
  \/ \E role \in {"customer", "retailer"}, cart \in Carts, ok \in BOOLEAN :
       create_orders_from_cart(SeqWorker, role, cart, ok)
  \/ CheckoutLockItem(SeqWorker)
  \/ CheckoutFlushGroup(SeqWorker)
  \/ CheckoutCommit(SeqWorker)
  \/ \E gateway_ok \in BOOLEAN :
       create_unified_payment_for_orders(SeqWorker, gateway_ok)
  \/ CheckoutClearCart(SeqWorker)

SpecCheckoutPay == InitCk /\ [][NextCheckoutPay]_vars

\* a customer fills, changes and checks out the cart while a second customer
\* buys the first product and its seller restocks it or tries to empty it
NextCart ==
  \/ \E prod \in Products, quantity \in 0..MaxQty :
       add_to_cart(SeqWorker, "customer", prod, quantity)
  \/ add_to_cart("w2", "customer", "prod_a", MaxQty)
  \/ \E n \in 1..MaxQty, quantity \in 0..MaxQty :
       update_cart_item_quantity(SeqWorker, n, quantity)
  \/ \E n \in 1..MaxQty : remove_from_cart(SeqWorker, n)
  \/ ClearCartRoute(SeqWorker)
  \/ \E n \in {0, MaxStock} : update_inventory("prod_a", n)
  \/ \E p \in Procs :
       \/ /\ cart_lines[BuyerOf(p)] # <<>>
          /\ create_orders_from_cart(p, "customer", cart_lines[BuyerOf(p)], TRUE)
       \/ CheckoutLockItem(p)
       \/ CheckoutFlushGroup(p)
       \/ CheckoutCommit(p)
       \/ \E gateway_ok \in BOOLEAN : create_unified_payment_for_orders(p, gateway_ok)
       \/ CheckoutClearCart(p)

InitCart ==
  /\ InitLifecycle({FALSE}, {"customer"})
  /\ InitCheckout({RetailProduct("seller2", None)}, {MaxStock})
  /\ InitSettlement

SpecCart == InitCart /\ [][NextCart]_vars

\* the buyers' cart-accessing requests are served side by side
NextCartAccess ==
  \E p \in Procs :
    \/ \E route \in CartRoutes, user \in Buyers : get_or_create_cart(p, route, user)
    \/ CartCreate(p)

\* no buyer has touched the cart yet
InitCartAccess ==
  /\ InitLifecycle({FALSE}, {"customer"})
  /\ InitSettlement
  /\ catalog = [prod \in Products |->
                  RetailProduct(IF prod = "prod_a" THEN "seller1" ELSE "seller2", None)]
  /\ stock = [prod \in Products |-> MaxStock]
  /\ initial_stock = stock
  /\ inv_lock = [prod \in Products |-> NoProc]
  /\ placed = <<>>
  /\ ck = [p \in Procs |-> NoCheckout]
  /\ payments = <<>>
  /\ checkout_req = [p \in Procs |-> NoCheckoutReq]
  /\ cart_cleared_by = {}
  /\ cart_lines = [u \in Buyers |-> <<>>]
  /\ carts = [u \in Buyers |-> 0]
  /\ cart_req = [p \in Procs |-> NoCartReq]
  /\ emails = {}

SpecCartAccess == InitCartAccess /\ [][NextCartAccess]_vars

\* the session that serves the gateway's webhook deliveries
WebhookWorker == "w2"

\* one checkout request, and the gateway's events for the Payment it created
NextCartClear ==
  \/ NextCheckoutPay
  \/ /\ payments # <<>>
     /\ CanStart(WebhookWorker, MaxAppend)
     /\ \E event \in WebhookEvents, id \in GatewayPaymentIds :
          razorpay_webhook(WebhookWorker, event, razorpay_order_id, id)
  \/ WebhookFlushPayment(WebhookWorker)
  \/ WebhookCoupon(WebhookWorker)
  \/ WebhookClearCart(WebhookWorker)
  \/ WebhookConfirmOrders(WebhookWorker)
  \/ WebhookPaymentFailed(WebhookWorker)

InitCartClear ==
  /\ InitLifecycle(BOOLEAN, {"customer"})
  /\ InitCheckout({RetailProduct("seller2", None)}, 0..MaxStock)
  /\ InitSettlement

SpecCartClear == InitCartClear /\ [][NextCartClear]_vars

\* the payees and order id lists an admin submits; the ids of a list come
\* in ascending order and may repeat
SettleUsers == {"seller1", "seller2", "dp1", MissingUser}
SettleOrderIds == Orders \cup {MissingOrder}
OrderIdLists ==
  UNION {{ids \in [1..n -> SettleOrderIds] :
            \A j \in 1..(n - 1) : ids[j] <= ids[j + 1]} : n \in 1..MaxIds}

\* the orders as the admin finds them: unpaid, confirmed, or delivered by dp1
SettleStatuses == {"PENDING", "CONFIRMED", "DELIVERED"}

HistoryUpTo(o, status) ==
  IF status = "PENDING" THEN <<>>
  ELSE IF status = "CONFIRMED"
    THEN <<[status |-> "CONFIRMED", updated_by_id |-> buyer_id]>>
  ELSE <<[status |-> "CONFIRMED", updated_by_id |-> buyer_id],
         [status |-> "PREPARING", updated_by_id |-> seller_id(o)],
         [status |-> "READY_TO_SHIP", updated_by_id |-> seller_id(o)],
         [status |-> "DELIVERY_PARTNER_ASSIGNED", updated_by_id |-> "dp1"],
         [status |-> "PICKED_UP", updated_by_id |-> "dp1"],
         [status |-> "OUT_FOR_DELIVERY", updated_by_id |-> "dp1"],
         [status |-> "DELIVERED", updated_by_id |-> "dp1"]>>

InitSettle ==
  /\ order_status \in [Orders -> SettleStatuses]
  /\ payment_status = (IF \A o \in Orders : order_status[o] = "PENDING"
                         THEN "pending" ELSE "completed")
  /\ razorpay_payment_id = (IF payment_status = "completed" THEN "pay_1" ELSE None)
  /\ payment_coupon = FALSE
  /\ used_count = 0
  /\ cart_items = {}
  /\ buyer_type = "customer"
  /\ delivery_partner_id =
       [o \in Orders |-> IF order_status[o] = "DELIVERED" THEN "dp1" ELSE None]
  /\ history = [o \in Orders |-> HistoryUpTo(o, order_status[o])]
  /\ pay_lock = NoProc
  /\ pc = [p \in Procs |-> "idle"]
  /\ req = [p \in Procs |-> NoReq]
  /\ loc = [p \in Procs |-> NoLoc]
  /\ resp = [p \in Procs |-> None]
  /\ InitCheckout({RetailProduct("seller2", None)}, {MaxStock})
  /\ InitSettlement

SettleStep(p) ==
  \/ SettleReadOrder(p)
  \/ SettleCommit(p)

\* the admin's settlement calls are served one after the other
NextSettle ==
  \/ \E u \in SettleUsers, ids \in OrderIdLists :
       create_settlement(SeqWorker, u, ids)
  \/ SettleStep(SeqWorker)

SpecSettle == InitSettle /\ [][NextSettle]_vars

\* the admin settles single orders with their sellers while the sellers
\* send status and cancel requests for them
NextSettleStatus ==
  \/ /\ st[SeqWorker].pc \in {"idle", "done"}
     /\ Len(settlements) < MaxSettlements
     /\ \E o \in Orders : create_settlement(SeqWorker, seller_id(o), <<o>>)
  \/ SettleStep(SeqWorker)
  \/ /\ ~InFlight(SeqWorker)
     /\ \E o \in Orders, s \in OrderStatus :
          update_status(SeqWorker, seller_id(o), required_seller_role(buyer_type),
                        o, s)
  \/ UpdateStatusWrite(SeqWorker)

SpecSettleStatus == InitSettle /\ [][NextSettleStatus]_vars

\* two settlement calls for payees of the orders are served side by side
NextSettleConc ==
  \E p \in Procs :
    \/ /\ Len(settlements) < MaxSettlements
       /\ \E u \in SettleUsers \ {MissingUser},
             ids \in {l \in OrderIdLists : \A j \in 1..Len(l) : l[j] \in Orders} :
            create_settlement(p, u, ids)
    \/ SettleStep(p)

SpecSettleConc == InitSettle /\ [][NextSettleConc]_vars

\* tier prices in paise, around the subtotals at which the fee cap of half
\* the subtotal meets the raw fee, and the priced lines of a group
TierPrices == {r * 100 + c : r \in {10, 200}, c \in 0..MaxCents}
PricedLines == [price : TierPrices, quantity : 1..MaxQty]
PricedGroups == {<<l>> : l \in PricedLines} \cup (PricedLines \X PricedLines)

\* distances in thousandths of a kilometre
Distances == {k * Thousand + m : k \in {0, 10}, m \in 0..MaxDistMills}

NextFee ==
  \E lines \in PricedGroups, has_coords \in BOOLEAN, km \in Distances :
    CheckoutPriceGroup(lines, has_coords, km)

InitFee ==
  /\ InitLifecycle({FALSE}, {"customer"})
  /\ InitCheckout({RetailProduct("seller2", None)}, {MaxStock})
  /\ InitSettlement

SpecFee == InitFee /\ [][NextFee]_vars

\* gross totals in paise
GrossAmounts == 0..MaxGross

NextCommission ==
  \E total \in GrossAmounts :
    \/ SettlementAmounts(total)
    \/ PendingAmounts(total)

SpecCommission == InitFee /\ [][NextCommission]_vars

\* subtotal and delivery fee of an order, in paise: a free order, an order
\* of 0.01 whose capped fee rounds to nothing, and an order of 20.00
OrderAmounts ==
  {[original_subtotal |-> 0, delivery_fee |-> 0],
   [original_subtotal |-> 1, delivery_fee |-> 0],
   PaidAmounts}

\* who delivered a DELIVERED order: dp1, or seller1 acting as delivery partner
PendingPartners(status) == IF status = "DELIVERED" THEN {"dp1", "seller1"} ELSE {None}

DeliveredBy(h, dp) ==
  [n \in 1..Len(h) |->
     IF h[n].updated_by_id = "dp1" THEN [h[n] EXCEPT !.updated_by_id = dp] ELSE h[n]]

\* the orders as the admin finds them, none settled yet
InitPending ==
  /\ order_status \in [Orders -> SettleStatuses]
  /\ payment_status = (IF \A o \in Orders : order_status[o] = "PENDING"
                         THEN "pending" ELSE "completed")
  /\ razorpay_payment_id = (IF payment_status = "completed" THEN "pay_1" ELSE None)
  /\ payment_coupon = FALSE
  /\ used_count = 0
  /\ cart_items = {}
  /\ buyer_type = "customer"
  /\ delivery_partner_id \in [Orders -> {"dp1", "seller1", None}]
  /\ \A o \in Orders : delivery_partner_id[o] \in PendingPartners(order_status[o])
  /\ history = [o \in Orders |->
                  DeliveredBy(HistoryUpTo(o, order_status[o]), delivery_partner_id[o])]
  /\ pay_lock = NoProc
  /\ pc = [p \in Procs |-> "idle"]
  /\ req = [p \in Procs |-> NoReq]
  /\ loc = [p \in Procs |-> NoLoc]
  /\ resp = [p \in Procs |-> None]
  /\ InitCheckout({RetailProduct("seller2", None)}, {MaxStock})
  /\ quote = NoQuote
  /\ payout = NoPayout
  /\ order_amounts \in [Orders -> OrderAmounts]
  /\ pending = NoPending
  /\ settlement_id = [o \in Orders |-> None]
  /\ settlements = <<>>
  /\ st = [p \in Procs |-> NoSettle]

\* the admin settles single orders with their sellers and then asks for the
\* pending settlements
NextPending ==
  \/ /\ ~pending.computed
     /\ Len(settlements) < MaxSettlements
     /\ \E o \in Orders : create_settlement(SeqWorker, seller_id(o), <<o>>)
  \/ SettleStep(SeqWorker)
  \/ get_pending_settlements_by_user

SpecPending == InitPending /\ [][NextPending]_vars

\* the admin submits one record of the pending list as it stands: the
\* record's user id with exactly its order ids
SettleListed(p) ==
  /\ pending.computed
  /\ settlements = <<>>
  /\ st[p].pc = "idle"
  /\ \E u \in DOMAIN pending.records :
       create_settlement(p, u, IdList(pending.records[u].order_ids))

\* the admin asks for the pending settlements and settles a listed record
NextSettleListed ==
  \/ get_pending_settlements_by_user
  \/ SettleListed(SeqWorker)
  \/ SettleStep(SeqWorker)

SpecSettleListed == InitPending /\ [][NextSettleListed]_vars

\* ------------------------------------------------------------------------
\* Properties
\* ------------------------------------------------------------------------

\* number of CONFIRMED rows the payment confirmation wrote into a history
ConfirmedBy(h, user) ==
  Cardinality({i \in 1..Len(h) :
                 h[i].status = "CONFIRMED" /\ h[i].updated_by_id = user})

HistoryLen == [o \in Orders |-> Len(history[o])]

\* request p has just been handed a payment.captured event for the Payment
CaptureArrives(p) ==
  /\ ~InFlight(p)
  /\ <<pc[p], req[p], loc[p], resp[p]>>' # <<pc[p], req[p], loc[p], resp[p]>>
  /\ req'[p].kind = "webhook"
  /\ req'[p].event = "payment.captured"
  /\ req'[p].gw_order = razorpay_order_id

\* C1: a payment.captured delivery that arrives when the first delivery has
\* completed (the Payment is COMPLETED) is acknowledged with "ok" at once and
\* changes no order status, no history length, nothing of the Payment row and
\* not the coupon usage count.
C1_SecondCaptureIsNoOp ==
  [][\A p \in Procs :
       (CaptureArrives(p) /\ payment_status = "completed")
         => /\ pc'[p] = "done"
            /\ resp'[p] = "ok"
            /\ order_status' = order_status
            /\ HistoryLen' = HistoryLen
            /\ payment_status' = payment_status
            /\ razorpay_payment_id' = razorpay_payment_id
            /\ used_count' = used_count]_vars

C1_Witness ==
  \E p \in Procs :
    /\ pc[p] = "done" /\ resp[p] = "ok"
    /\ req[p].kind = "webhook" /\ req[p].event = "payment.captured"
    /\ loc[p].payment_status = "completed"
    /\ payment_status = "completed"
    /\ payment_coupon /\ used_count = 1
    /\ \A o \in Orders : ConfirmedBy(history[o], buyer_id) = 1

\* C2: when deliveries of the same payment.captured event are handled
\* concurrently, the confirmation is applied once: no order ever has more
\* than one CONFIRMED entry of the payment, the coupon usage is incremented
\* at most once, and when the deliveries are over each order has exactly one
\* such entry.
C2_ConcurrentCaptureAppliedOnce ==
  /\ used_count <= 1
  /\ \A o \in Orders : ConfirmedBy(history[o], buyer_id) <= 1
  /\ (\A p \in Procs : pc[p] = "done")
       => \A o \in Orders : ConfirmedBy(history[o], buyer_id) = 1

\* C3: in every committed state a COMPLETED Payment implies that each of
\* its orders has been confirmed by the payment, with its CONFIRMED history
\* entry.
C3_CompletedImpliesOrdersConfirmed ==
  payment_status = "completed"
    => \A o \in Orders : ConfirmedBy(history[o], buyer_id) >= 1

\* C4: once the Payment is COMPLETED its status never changes again.
C4_CompletedIsTerminal ==
  [][payment_status = "completed" => payment_status' = "completed"]_vars

\* the two linear flows of the order status
SellerFlow == <<"PENDING", "CONFIRMED", "PREPARING", "READY_TO_SHIP">>
DeliveryFlow ==
  <<"DELIVERY_PARTNER_ASSIGNED", "PICKED_UP", "OUT_FOR_DELIVERY", "DELIVERED">>

CallerFlow(role) == IF role = "delivery_partner" THEN DeliveryFlow ELSE SellerFlow

FollowsIn(flow, a, b) ==
  \E i \in 1..(Len(flow) - 1) : flow[i] = a /\ flow[i + 1] = b

\* steps of a PATCH /orders/{id}/status request
StatusAccepted(p) == pc[p] # "write_status" /\ pc'[p] = "write_status"
StatusApplied(p) == pc[p] = "write_status" /\ pc'[p] = "done" /\ resp'[p] = "200"
StatusRejected(p) ==
  /\ ~InFlight(p)
  /\ pc'[p] = "done"
  /\ req'[p].kind = "status"
  /\ resp'[p] \in {"400", "403"}

\* C7: a successful status call moves the order to exactly the status that
\* follows its current one in the caller's flow, or to CANCELLED, and adds
\* one history row; a call with any other target is rejected and leaves the
\* statuses and histories as they are.
C7_SingleStepTransitions ==
  [][\A p \in Procs :
       /\ StatusAccepted(p)
            => LET o == req'[p].order
                   s == req'[p].status
               IN  /\ \/ s = "CANCELLED"
                      \/ FollowsIn(CallerFlow(req'[p].role), order_status[o], s)
                   /\ ~(order_status[o] = "READY_TO_SHIP"
                          /\ s \in {"DELIVERED", "DELIVERY_PARTNER_ASSIGNED"})
       /\ StatusApplied(p)
            => LET o == req[p].order
               IN  /\ order_status'[o] = req[p].status
                   /\ \/ order_status'[o] = "CANCELLED"
                      \/ FollowsIn(CallerFlow(req[p].role),
                                   order_status[o], order_status'[o])
                   /\ Len(history'[o]) = Len(history[o]) + 1
                   /\ \A x \in Orders \ {o} :
                        /\ order_status'[x] = order_status[x]
                        /\ history'[x] = history[x]
       /\ StatusRejected(p)
            => /\ order_status' = order_status
               /\ history' = history]_vars

C7_Witness ==
  \E p \in Procs :
    /\ pc[p] = "done" /\ resp[p] = "200" /\ req[p].kind = "status"
    /\ req[p].role = "delivery_partner"
    /\ loc[p].order_status = "OUT_FOR_DELIVERY"
    /\ order_status[req[p].order] = "DELIVERED"

\* who may advance an order
Authorised(user, role, o) ==
  \/ /\ user = seller_id(o)
     /\ \/ buyer_type = "customer" /\ role = "retailer"
        \/ buyer_type = "retailer" /\ role = "wholesaler"
  \/ /\ delivery_partner_id[o] # None
     /\ user = delivery_partner_id[o]
     /\ role = "delivery_partner"

\* C8: a status call is accepted and applied only for the order's seller
\* under the seller role matching the order's buyer type, or for the
\* assigned delivery partner under the DELIVERY_PARTNER role; a rejected
\* call leaves every order as it is.
C8_OnlySellerOrAssignedPartner ==
  [][\A p \in Procs :
       /\ StatusAccepted(p)
            => Authorised(req'[p].user, req'[p].role, req'[p].order)
       /\ StatusApplied(p)
            => Authorised(req[p].user, req[p].role, req[p].order)
       /\ StatusRejected(p)
            => /\ order_status' = order_status
               /\ delivery_partner_id' = delivery_partner_id
               /\ history' = history]_vars

C8_Witness ==
  \E p \in Procs :
    /\ pc[p] = "done" /\ resp[p] = "200" /\ req[p].kind = "status"
    /\ req[p].user = seller_id(req[p].order)
    /\ req[p].role = "wholesaler"
    /\ buyer_type = "retailer"
    /\ order_status[req[p].order] = req[p].status

\* C9: an order whose status is DELIVERED, CANCELLED, RETURNED or REFUNDED
\* keeps that status under every later operation.
C9_TerminalStatusIsFinal ==
  [][\A o \in Orders :
       order_status[o] \in {"DELIVERED", "CANCELLED", "RETURNED", "REFUNDED"}
         => order_status'[o] = order_status[o]]_vars

\* request p is a claim of order o that was reported successful
ClaimSucceeded(p, o) ==
  /\ pc[p] = "done" /\ resp[p] = "200"
  /\ req[p].kind = "claim" /\ req[p].order = o

\* C10: of the claims of one order at most one is reported successful, and
\* the stored delivery partner is the one whose claim was reported so.
C10_OneClaimWins ==
  \A o \in Orders :
    \A p \in Procs :
      ClaimSucceeded(p, o)
        => /\ delivery_partner_id[o] = req[p].user
           /\ \A q \in Procs \ {p} : ~ClaimSucceeded(q, o)

\* ------------------------------------------------------------------------
\* Checkout properties
\* ------------------------------------------------------------------------

RECURSIVE QuantityIn(_, _)
\* units of prod in a list of cart lines / order items
QuantityIn(items, prod) ==
  IF items = <<>> THEN 0
  ELSE (IF Head(items).product = prod THEN Head(items).quantity ELSE 0)
       + QuantityIn(Tail(items), prod)

RECURSIVE QuantityOrdered(_, _)
\* units of prod in the order items of a list of orders
QuantityOrdered(orders, prod) ==
  IF orders = <<>> THEN 0
  ELSE QuantityIn(Head(orders).items, prod) + QuantityOrdered(Tail(orders), prod)

\* both sessions have checked out a cart of one unit of prod, which the
\* buyer may purchase, when one unit was in stock
RaceForLastUnit(prod) ==
  /\ initial_stock[prod] = 1
  /\ \A p \in Procs :
       /\ ck[p].pc = "done"
       /\ ck[p].cart = <<[product |-> prod, quantity |-> 1]>>
       /\ _buyer_type_for_user(ck[p].role) \in catalog[prod].tiers

\* C5: under any interleaving of concurrent checkouts the stock of a product
\* never goes below 0 and the units in created order items never exceed the
\* stock that was available; of two checkouts of one unit against a stock of
\* one, exactly one succeeds and the other fails with insufficient stock.
C5_StockNeverOversubscribed ==
  /\ \A prod \in Products :
       /\ stock[prod] >= 0
       /\ QuantityOrdered(placed, prod) <= initial_stock[prod]
  /\ \A prod \in Products :
       RaceForLastUnit(prod) =>
         \E p \in Procs : \A q \in Procs \ {p} :
           /\ ck[p].result = "ok"
           /\ ck[q].result = "Insufficient stock for one or more items"

\* two checkouts raced for the last unit: one order with that unit exists
C5_Witness ==
  \E prod \in Products :
    /\ RaceForLastUnit(prod)
    /\ Len(placed) = 1
    /\ QuantityOrdered(placed, prod) = 1
    /\ stock[prod] = 0

\* the step in which the checkout of session p ends
CheckoutEnds(p) == ck[p].pc # "done" /\ ck'[p].pc = "done"

\* the step commits the whole cart of session p: one order per group, the
\* stock of every product lowered by the units the cart holds of it
CommitsWholeCart(p) ==
  /\ CheckoutEnds(p)
  /\ ck'[p].result = "ok"
  /\ Len(placed') = Len(placed) + Len(ck[p].groups)
  /\ \A prod \in Products :
       /\ stock'[prod] = stock[prod] - QuantityIn(ck[p].cart, prod)
       /\ QuantityOrdered(placed', prod) =
            QuantityOrdered(placed, prod) + QuantityIn(ck[p].cart, prod)

\* C6: when any cart line of any group fails validation (insufficient stock,
\* no pricing tier for the buyer type, inactive or deleted product, seller
\* type not allowed) the whole checkout fails, no order or order item is
\* persisted and the stock of every product is what it was before, also when
\* earlier groups had been built and flushed: orders and stock change only in
\* a step that commits a whole cart.
C6_FailedCheckoutPersistsNothing ==
  [][/\ \A p \in Procs :
          (CheckoutEnds(p) /\ ck'[p].result # "ok") =>
            (placed' = placed /\ stock' = stock)
     /\ (placed' # placed \/ stock' # stock) =>
          \E p \in Procs : CommitsWholeCart(p)
     /\ \A p \in Procs :
          (ck'[p].pc = "done" /\ ck'[p].result # "ok") =>
            \A k \in 1..Len(placed') : placed'[k].buyer # p]_vars

\* a checkout failed on a line of its second group, after the first group
\* had been flushed, and nothing of it is in the database
C6_Witness ==
  \E p \in Procs :
    /\ ck[p].pc = "done"
    /\ ck[p].result \in {"Insufficient stock for one or more items",
                         "Pricing not available for buyer type"}
    /\ ck[p].g = 2
    /\ placed = <<>>
    /\ stock = initial_stock

\* ------------------------------------------------------------------------
\* Delivery claim properties
\* ------------------------------------------------------------------------

\* steps of a POST /orders/{id}/claim request
ClaimAccepted(p) == pc[p] # "write_claim" /\ pc'[p] = "write_claim"
ClaimApplied(p) == pc[p] = "write_claim" /\ pc'[p] = "done" /\ resp'[p] = "200"
ClaimRejected(p) ==
  /\ ~InFlight(p)
  /\ pc'[p] = "done"
  /\ req'[p].kind = "claim"
  /\ resp'[p] \in {"400", "403"}

\* C11: a claim goes through only for a DELIVERY_PARTNER caller and an order
\* that is READY_TO_SHIP without a delivery partner; it then sets the
\* delivery partner to the caller and the status to
\* DELIVERY_PARTNER_ASSIGNED in one commit, with one history row; a claim of
\* an order that has a delivery partner or is in another status is rejected
\* and leaves the delivery partners and statuses as they are.
C11_ClaimOnlyUnassignedReadyToShip ==
  [][\A p \in Procs :
       /\ ClaimAccepted(p)
            => /\ req'[p].role = "delivery_partner"
               /\ order_status[req'[p].order] = "READY_TO_SHIP"
               /\ delivery_partner_id[req'[p].order] = None
               /\ order_status' = order_status
               /\ delivery_partner_id' = delivery_partner_id
       /\ ClaimApplied(p)
            => LET o == req[p].order
               IN  /\ order_status[o] = "READY_TO_SHIP"
                   /\ delivery_partner_id[o] = None
                   /\ order_status'[o] = "DELIVERY_PARTNER_ASSIGNED"
                   /\ delivery_partner_id'[o] = req[p].user
                   /\ Len(history'[o]) = Len(history[o]) + 1
                   /\ \A x \in Orders \ {o} :
                        /\ order_status'[x] = order_status[x]
                        /\ delivery_partner_id'[x] = delivery_partner_id[x]
       /\ ClaimRejected(p)
            => /\ order_status' = order_status
               /\ delivery_partner_id' = delivery_partner_id
               /\ history' = history]_vars

\* a claim of a READY_TO_SHIP order without a partner went through and the
\* order carries the claimant
C11_Witness ==
  \E p \in Procs :
    /\ pc[p] = "done" /\ resp[p] = "200" /\ req[p].kind = "claim"
    /\ loc[p].order_status = "READY_TO_SHIP" /\ loc[p].dp = None
    /\ order_status[req[p].order] = "DELIVERY_PARTNER_ASSIGNED"
    /\ delivery_partner_id[req[p].order] = req[p].user

\* ------------------------------------------------------------------------
\* Settlement properties
\* ------------------------------------------------------------------------

\* the settlement rows whose order_ids hold order o
SettlementsOf(rows, o) ==
  {k \in 1..Len(rows) :
     \E j \in 1..Len(rows[k].order_ids) : rows[k].order_ids[j] = o}

\* the step in which the settlement call of session p ends with an error
SettleRejected(p) ==
  /\ st[p].pc # "done" \/ st'[p] # st[p]
  /\ st'[p].pc = "done"
  /\ st'[p].result # "ok"
  /\ st'[p] # st[p]

\* the step in which the settlement call of session p commits its batch
SettleCommitted(p) == st[p].pc = "commit" /\ st'[p].pc = "done"

\* C12: over any sequence of create_settlement calls an order id is in at
\* most one settlement; a call that lists an order whose settlement_id is
\* set fails with the already-settled error and creates no settlement row;
\* a settlement_id that has been set never changes.
C12_OrderSettledAtMostOnce ==
  [][/\ \A o \in Orders :
          /\ settlement_id[o] # None => settlement_id'[o] = settlement_id[o]
          /\ Cardinality(SettlementsOf(settlements', o)) <= 1
     /\ \A p \in Procs :
          (/\ st[p].pc = "read"
           /\ st[p].order_ids[st[p].i] \in Orders
           /\ settlement_id[st[p].order_ids[st[p].i]] # None)
            => /\ st'[p].pc = "done"
               /\ st'[p].result = "is already settled"
               /\ settlements' = settlements
               /\ settlement_id' = settlement_id]_vars

\* an order was settled, and a later call that listed it was refused
C12_Witness ==
  \E p \in Procs :
    /\ st[p].pc = "done"
    /\ st[p].result = "is already settled"
    /\ Len(settlements) = 1
    /\ \E o \in Orders : settlement_id[o] = settlements[1].id

\* C13: when create_settlement calls with overlapping order ids run side
\* by side, no order id ends up in the order_ids of two settlement rows.
C13_NoOrderInTwoSettlements ==
  \A o \in Orders : Cardinality(SettlementsOf(settlements, o)) <= 1

\* order o may be settled for user: the user's own sale, confirmed or
\* delivered, or the user's own delivery, delivered
Settleable(o, user) ==
  /\ o \in Orders
  /\ \/ seller_id(o) = user /\ order_status[o] \in {"CONFIRMED", "DELIVERED"}
     \/ delivery_partner_id[o] = user /\ order_status[o] = "DELIVERED"

\* C14: create_settlement succeeds only if every listed order exists, is
\* unsettled and belongs to the user as seller (CONFIRMED or DELIVERED) or
\* as delivery partner (DELIVERED); it then creates one settlement row and
\* stamps every listed order with it.  A call in which a listed order fails
\* a check creates no settlement row and sets no order's settlement_id.
C14_SettlementAllOrNothing ==
  [][/\ \A p \in Procs :
          SettleCommitted(p) =>
            /\ Len(settlements') = Len(settlements) + 1
            /\ LET row == settlements'[Len(settlements')]
               IN  /\ row.user_id = st[p].user
                   /\ row.order_ids = st[p].order_ids
                   /\ \A j \in 1..Len(row.order_ids) :
                        /\ Settleable(row.order_ids[j], row.user_id)
                        /\ settlement_id[row.order_ids[j]] = None
                        /\ settlement_id'[row.order_ids[j]] = row.id
                   /\ \A o \in Orders :
                        SettlementsOf(<<row>>, o) = {}
                          => settlement_id'[o] = settlement_id[o]
     /\ \A p \in Procs :
          SettleRejected(p) =>
            /\ settlements' = settlements
            /\ settlement_id' = settlement_id
     /\ (settlements' # settlements \/ settlement_id' # settlement_id)
          => \E p \in Procs : SettleCommitted(p)]_vars

\* a batch whose first order passed and whose second order failed a check
\* has left no settlement row and no stamped order
C14_Witness ==
  \E p \in Procs :
    /\ st[p].pc = "done"
    /\ st[p].result \in {"is not in a settleable status", "is not delivered",
                         "does not belong to this user", "not found"}
    /\ st[p].i = 2
    /\ settlements = <<>>
    /\ \A o \in Orders : settlement_id[o] = None

\* ------------------------------------------------------------------------
\* Order amount properties
\* ------------------------------------------------------------------------

\* an order has been built
Quoted == quote.lines # <<>>

\* C15: every order created by checkout has order_total = order_subtotal +
\* delivery_fee on the stored values, each quantized to two decimals.
C15_TotalIsSubtotalPlusFee ==
  Quoted => quote.order_total = quote.order_subtotal + quote.delivery_fee

\* C16: every order created by checkout has a stored delivery_fee of at
\* most half its stored order_subtotal.
C16_FeeAtMostHalfSubtotal ==
  Quoted => 2 * quote.delivery_fee <= quote.order_subtotal

\* the subtotal of the lines, in paise
SubtotalPaise(lines) ==
  IF Len(lines) = 1 THEN lines[1].price * lines[1].quantity
  ELSE lines[1].price * lines[1].quantity + lines[2].price * lines[2].quantity

\* C17: the delivery fee of a group is the smaller of 10 + 1 x distance_km
\* and half the subtotal, with distance 0 when the group has no pickup
\* coordinates; a subtotal of 200 at 10 km gives fee 20 and total 220.
C17_FeeIsMinOfRawAndCap ==
  Quoted =>
    LET km == IF quote.has_coords THEN quote.km ELSE 0
        raw == 10000 + km
        sub == SubtotalPaise(quote.lines)
    IN  /\ quote.fee <= raw
        /\ quote.fee <= 5 * sub
        /\ quote.fee = raw \/ quote.fee = 5 * sub
        /\ (sub = 20000 /\ km = 10000)
             => /\ quote.delivery_fee = 2000
                /\ quote.order_total = 22000

\* the order of a group of subtotal 200 picked up 10 km away
C17_Witness ==
  /\ Quoted
  /\ SubtotalPaise(quote.lines) = 20000
  /\ quote.has_coords /\ quote.km = 10000
  /\ quote.delivery_fee = 2000
  /\ quote.order_total = 22000

\* ------------------------------------------------------------------------
\* Order grouping properties
\* ------------------------------------------------------------------------

\* session p commits its checkout in this step
CommitsCheckout(p) == ck[p].pc = "commit" /\ ck'[p].result = "ok"

\* the orders the step adds to the orders table
NewOrders == SubSeq(placed', Len(placed) + 1, Len(placed'))

\* the (seller_id, pickup_address_id) pair of a product
GroupKey(prod) ==
  <<catalog[prod].seller_id,
    IF catalog[prod].address_id # None THEN catalog[prod].address_id
    ELSE SellerActiveAddress(catalog[prod].seller_id)>>

\* the order items of a product among a sequence of orders
ItemsOf(orders, prod) ==
  UNION {{<<k, j>> : j \in {i \in 1..Len(orders[k].items) :
                               orders[k].items[i].product = prod}} :
         k \in 1..Len(orders)}

\* C18: a successful checkout creates exactly one order per distinct
\* (seller_id, pickup_address_id) pair among the cart's products; every cart
\* line becomes exactly one OrderItem, with the cart quantity, in the order
\* of its group; each product's stock goes down by exactly that quantity.
C18_OneOrderPerSellerAndPickup ==
  [][\A p \in Procs : CommitsCheckout(p) =>
       LET cart == ck[p].cart
           keys == {GroupKey(cart[n].product) : n \in 1..Len(cart)}
       IN  /\ Len(NewOrders) = Cardinality(keys)
           /\ \A key \in keys :
                Cardinality({k \in 1..Len(NewOrders) :
                   <<NewOrders[k].seller_id, NewOrders[k].pickup>> = key}) = 1
           /\ \A k \in 1..Len(NewOrders) :
                /\ NewOrders[k].buyer = p
                /\ Len(NewOrders[k].items) \in 1..Len(cart)
                /\ \A j \in 1..Len(NewOrders[k].items) :
                     \E n \in 1..Len(cart) : cart[n] = NewOrders[k].items[j]
           /\ \A n \in 1..Len(cart) :
                LET found == ItemsOf(NewOrders, cart[n].product)
                IN  /\ Cardinality(found) = 1
                    /\ \A f \in found :
                         /\ NewOrders[f[1]].items[f[2]].quantity = cart[n].quantity
                         /\ <<NewOrders[f[1]].seller_id, NewOrders[f[1]].pickup>>
                              = GroupKey(cart[n].product)
                    /\ stock'[cart[n].product]
                         = stock[cart[n].product] - cart[n].quantity
           /\ \A prod \in Products :
                (\A n \in 1..Len(cart) : cart[n].product # prod)
                  => stock'[prod] = stock[prod]]_vars

\* a committed checkout of two lines of one seller and pickup: one order
\* with two items
C18_Witness ==
  \E p \in Procs :
    /\ ck[p].result = "ok"
    /\ Len(ck[p].cart) = 2
    /\ \E k \in 1..Len(placed) :
         /\ placed[k].buyer = p
         /\ Len(placed[k].items) = 2
         /\ \A n \in 1..2 :
              /\ placed[k].items[n] = ck[p].cart[n]
              /\ stock[ck[p].cart[n].product]
                   <= initial_stock[ck[p].cart[n].product] - ck[p].cart[n].quantity

\* ------------------------------------------------------------------------
\* Buyer role properties
\* ------------------------------------------------------------------------

\* every product of the cart is sold by a seller of the given type
AllSoldBy(cart, seller_type) ==
  \A n \in 1..Len(cart) : catalog[cart[n].product].seller_type = seller_type

\* C19: checkout succeeds only when the buyer's active role at checkout time
\* is CUSTOMER and every product in the cart is sold by a RETAILER-type
\* seller, or the role is RETAILER and every product is sold by a
\* WHOLESALER-type seller; otherwise it fails and nothing is persisted.
C19_CheckoutNeedsMatchingRole ==
  [][\A p \in Procs :
       /\ CommitsCheckout(p) =>
            \/ ck[p].role = "customer" /\ AllSoldBy(ck[p].cart, "retailer")
            \/ ck[p].role = "retailer" /\ AllSoldBy(ck[p].cart, "wholesaler")
       /\ (CheckoutEnds(p) /\ ck'[p].result # "ok") =>
            (placed' = placed /\ stock' = stock)]_vars

\* ------------------------------------------------------------------------
\* Checkout payment properties
\* ------------------------------------------------------------------------

\* the checkout request of session p has been answered
CheckoutAnswered(p) ==
  \/ checkout_req[p].pc = "done"
  \/ ck[p].pc = "done" /\ ck[p].result # "ok"

\* C20: a failure of the payment gateway's create-order call during checkout
\* leaves no trace: once the request has ended, every persisted order has a
\* payment_id, so no order of the checkout stays stored without a Payment
\* and with its stock already decremented.
C20_GatewayFailureLeavesNoTrace ==
  \A p \in Procs :
    CheckoutAnswered(p) =>
      \A k \in 1..Len(placed) :
        placed[k].buyer = p => placed[k].payment_id # None

\* ------------------------------------------------------------------------
\* Cart clearing properties
\* ------------------------------------------------------------------------

\* C21: for one checkout, the buyer's cart is cleared by exactly one of the
\* two paths, the checkout request or the payment.captured handler, never
\* by both.
C21_CartClearedByOnePath ==
  Cardinality(cart_cleared_by) <= 1

\* ------------------------------------------------------------------------
\* Cancellation properties
\* ------------------------------------------------------------------------

\* the step makes order o CANCELLED
BecomesCancelled(o) == order_status[o] # "CANCELLED" /\ order_status'[o] = "CANCELLED"

\* C22: an order becomes CANCELLED through the transition endpoint only when
\* the caller is its seller under the matching seller role and the order is
\* PENDING, CONFIRMED or PREPARING; a delivery partner never cancels, and no
\* caller cancels an order that is READY_TO_SHIP or later.
C22_CancelOnlyBySellerBeforeShipping ==
  [][\A o \in Orders :
       BecomesCancelled(o) =>
         \E p \in Procs :
           /\ StatusApplied(p)
           /\ req[p].order = o /\ req[p].status = "CANCELLED"
           /\ req[p].user = seller_id(o)
           /\ req[p].role # "delivery_partner"
           /\ \/ buyer_type = "customer" /\ req[p].role = "retailer"
              \/ buyer_type = "retailer" /\ req[p].role = "wholesaler"
           /\ order_status[o] \in {"PENDING", "CONFIRMED", "PREPARING"}]_vars

\* the seller has cancelled an order it was preparing
C22_Witness ==
  \E p \in Procs :
    /\ pc[p] = "done" /\ resp[p] = "200" /\ req[p].kind = "status"
    /\ req[p].status = "CANCELLED"
    /\ req[p].user = seller_id(req[p].order)
    /\ loc[p].order_status = "PREPARING"
    /\ order_status[req[p].order] = "CANCELLED"

\* ------------------------------------------------------------------------
\* Unsupported status properties
\* ------------------------------------------------------------------------

\* the step rejects a status call that targets RETURNED or REFUNDED
UnsupportedRejected(p) ==
  /\ StatusRejected(p)
  /\ <<pc[p], req[p], resp[p]>> # <<pc'[p], req'[p], resp'[p]>>
  /\ req'[p].status \in {"RETURNED", "REFUNDED"}

\* C23: no operation ever puts an order into RETURNED or REFUNDED; a
\* transition request targeting either status is rejected for every caller
\* and leaves the order unchanged.
C23_NeverReturnedOrRefunded ==
  [][/\ \A o \in Orders :
          /\ order_status[o] \notin {"RETURNED", "REFUNDED"}
          /\ order_status'[o] \notin {"RETURNED", "REFUNDED"}
          /\ \A n \in 1..Len(history'[o]) :
               history'[o][n].status \notin {"RETURNED", "REFUNDED"}
     /\ \A p \in Procs :
          /\ StatusAccepted(p) => req'[p].status \notin {"RETURNED", "REFUNDED"}
          /\ UnsupportedRejected(p)
               => /\ resp'[p] = "400"
                  /\ order_status' = order_status
                  /\ delivery_partner_id' = delivery_partner_id
                  /\ history' = history]_vars

\* a call targeting REFUNDED has been refused
C23_Witness ==
  \E p \in Procs :
    /\ pc[p] = "done" /\ resp[p] = "400"
    /\ req[p].kind = "status" /\ req[p].status = "REFUNDED"
    /\ \A o \in Orders : order_status[o] \notin {"RETURNED", "REFUNDED"}

\* ------------------------------------------------------------------------
\* Commission properties
\* ------------------------------------------------------------------------

\* C24: for every PaymentSettlement and every pending aggregate the
\* commission is 5% of the gross amount rounded to the cent and the net
\* amount is gross minus commission: net + commission = gross exactly and
\* 0 <= commission <= gross.
C24_CommissionAndNetAddUp ==
  payout.path # None =>
    /\ payout.amount = payout.gross
    /\ payout.net_amount + payout.commission_amount = payout.gross
    /\ 0 <= payout.commission_amount
    /\ payout.commission_amount <= payout.gross
    /\ 100 * payout.commission_amount - 5 * payout.gross <= 50
    /\ 5 * payout.gross - 100 * payout.commission_amount <= 50

\* a settlement of gross 1.10: commission 0.055 is stored as 0.06, net 1.04
C24_Witness ==
  /\ payout.path = "settlement"
  /\ payout.gross = 110
  /\ payout.commission_amount = 6
  /\ payout.net_amount = 104

\* the pending settlements are computed in this step
PendingComputed == ~pending.computed /\ pending'.computed

\* what one order adds to a user's pending amount
Contribution(o, u) ==
  (IF /\ seller_id(o) = u
      /\ settlement_id[o] = None
      /\ order_status[o] \in {"CONFIRMED", "DELIVERED"}
     THEN order_amounts[o].original_subtotal ELSE 0)
  + (IF /\ delivery_partner_id[o] = u
        /\ settlement_id[o] = None
        /\ order_status[o] = "DELIVERED"
       THEN order_amounts[o].delivery_fee ELSE 0)

\* the user's unsettled eligible orders, as seller or as delivery partner
EligibleOrders(u) ==
  {o \in Orders :
     /\ settlement_id[o] = None
     /\ \/ seller_id(o) = u /\ order_status[o] \in {"CONFIRMED", "DELIVERED"}
        \/ delivery_partner_id[o] = u /\ order_status[o] = "DELIVERED"}

RECURSIVE AmountDue(_, _)
AmountDue(S, u) ==
  IF S = {} THEN 0
  ELSE LET o == CHOOSE x \in S : TRUE
       IN  Contribution(o, u) + AmountDue(S \ {o}, u)

Actor(p) == IF req[p].kind = "webhook" THEN buyer_id ELSE req[p].user

\* C26: the status history is append-only and mirrors the status: a step
\* leaves the rows an order already has as they are and adds at most one;
\* a step that changes order_status adds one; an added row carries the
\* order's new status and the user the writing request acts for; and the
\* most recent row of an order that has history carries its order_status.
C26_HistoryAppendOnlyMirrorsStatus ==
  [][\A o \in Orders :
       LET old == Len(history[o])
           new == Len(history'[o])
       IN  /\ new \in {old, old + 1}
           /\ SubSeq(history'[o], 1, old) = history[o]
           /\ order_status'[o] # order_status[o] => new = old + 1
           /\ new = old + 1
                => /\ history'[o][new].status = order_status'[o]
                   /\ \E p \in Procs :
                        /\ pc[p] \in {"write_status", "write_claim", "confirm"}
                        /\ pc'[p] = "done"
                        /\ history'[o][new].updated_by_id = Actor(p)
           /\ new > 0 => history'[o][new].status = order_status'[o]]_vars

\* an order claimed by a delivery partner and one moved on by its seller,
\* both confirmed by the webhook, with a row for each write
C26_Witness ==
  \E o, x \in Orders :
    /\ history[o] = <<[status |-> "CONFIRMED", updated_by_id |-> buyer_id],
                      [status |-> "PREPARING", updated_by_id |-> seller_id(o)]>>
    /\ order_status[o] = "PREPARING"
    /\ Len(history[x]) = Len(InitHistory(x)) + 2
    /\ history[x][Len(history[x]) - 1] =
         [status |-> "DELIVERY_PARTNER_ASSIGNED",
          updated_by_id |-> delivery_partner_id[x]]
    /\ history[x][Len(history[x])].updated_by_id = buyer_id
    /\ order_status[x] = "CONFIRMED"

\* the orders an email is about
OrdersOf(e) == IF e.order = 0 THEN Orders ELSE {e.order}

\* the notifications of p's handler are built, or fail, in this step
TailRun(p) == TailPending(p) /\ pc'[p] = "idle"

C28_QuantitiesPositiveOneLinePerProduct ==
  /\ \A u \in Buyers :
       LET lines == cart_lines[u]
       IN  /\ \A n \in 1..Len(lines) : lines[n].quantity >= 1
           /\ \A m, n \in 1..Len(lines) : lines[m].product = lines[n].product => m = n
  /\ \A k \in 1..Len(placed) :
       \A n \in 1..Len(placed[k].items) : placed[k].items[n].quantity >= 1

\* C29: there is at most one Cart per user in every reachable state, also
\* when the user's first cart-accessing requests are served side by side.
C29_AtMostOneCartPerUser == \A u \in Buyers : carts[u] <= 1

\* the handler of p takes up a webhook delivery in this step
WebhookTakenUp(p) ==
  /\ ~InFlight(p)
  /\ req'[p].kind = "webhook"
  /\ <<pc[p], req[p], loc[p], resp[p]>> # <<pc'[p], req'[p], loc'[p], resp'[p]>>

\* everything the database holds besides the Payment's status
AllButPaymentStatus ==
  <<razorpay_payment_id, payment_coupon, used_count, cart_items, buyer_type,
    order_status, delivery_partner_id, history, ckvars, stvars, feevars,
    payvars, cartvars, notifyvars>>

\* C30: a payment.failed event changes the Payment's status to FAILED and
\* nothing else: no order status, history or delivery partner, not the cart
\* and not the inventory.  An event of another type, or one whose gateway
\* order id matches no Payment, is answered at once and changes nothing.
C30_FailedAndIgnoredEventsFrame ==
  [][\A p \in Procs :
       /\ (/\ WebhookTakenUp(p)
           /\ \/ req'[p].event \notin {"payment.captured", "payment.failed"}
              \/ req'[p].gw_order # razorpay_order_id)
            => /\ pc'[p] = "done"
               /\ payment_status' = payment_status
               /\ AllButPaymentStatus' = AllButPaymentStatus
       /\ (WebhookTakenUp(p) /\ req'[p].event = "payment.failed")
            => /\ payment_status' = payment_status
               /\ AllButPaymentStatus' = AllButPaymentStatus
       /\ (/\ req[p].kind = "webhook" /\ req[p].event = "payment.failed"
           /\ InFlight(p))
            => /\ pc'[p] \in {pc[p], "done"}
               /\ pc'[p] = "done" => payment_status' = "failed"
               /\ AllButPaymentStatus' = AllButPaymentStatus]_vars

\* a payment.failed event has been handled for a payment whose orders had
\* moved on: the Payment is FAILED and the orders are where they were
C30_Witness ==
  \E p \in Procs :
    /\ pc[p] = "done" /\ resp[p] = "ok"
    /\ req[p].kind = "webhook" /\ req[p].event = "payment.failed"
    /\ payment_status = "failed"
    /\ \E o \in Orders :
         /\ InitHistory(o) = <<>>
         /\ order_status[o] = "PREPARING"
         /\ Len(history[o]) = 2

\* ------------------------------------------------------------------------
\* C31
\* ------------------------------------------------------------------------
RECURSIVE ContributionSum(_, _)
\* the contributions of a set of orders to a payee, each order once
ContributionSum(S, user) ==
  IF S = {} THEN 0
  ELSE LET o == CHOOSE x \in S : TRUE
       IN  (IF seller_id(o) = user THEN order_amounts[o].original_subtotal
            ELSE order_amounts[o].delivery_fee)
           + ContributionSum(S \ {o}, user)

\* the distinct orders a settlement row covers
CoveredOrders(row) == {row.order_ids[k] : k \in 1..Len(row.order_ids)}

\* C31: the gross amount of every created settlement is the sum of the
\* contributions of the distinct orders it covers; an order listed twice in
\* order_ids is counted once.
C31_GrossIsSumOverDistinctOrders ==
  \A n \in 1..Len(settlements) :
    settlements[n].amount
      = ContributionSum(CoveredOrders(settlements[n]), settlements[n].user_id)

\* ------------------------------------------------------------------------
\* C32
\* ------------------------------------------------------------------------
\* the order leaves PENDING for CONFIRMED or a later non-cancelled status
LeavesPendingForward(o) ==
  /\ order_status[o] = "PENDING"
  /\ order_status'[o] \notin {"PENDING", "CANCELLED"}

\* C32: an order moves from PENDING to CONFIRMED, or to any later
\* non-cancelled status, only when the Payment that funds it is COMPLETED;
\* no step leaves an order confirmed with its Payment pending or failed.
C32_ConfirmedOnlyAfterPaymentCompleted ==
  [][\A o \in Orders :
       LeavesPendingForward(o) => payment_status' = "completed"]_vars

\* ------------------------------------------------------------------------
\* C33
\* ------------------------------------------------------------------------
\* the forward chain of the order status
StatusChain == SellerFlow \o DeliveryFlow

\* position of a status of the chain
ChainIndex(status) == CHOOSE n \in 1..Len(StatusChain) : StatusChain[n] = status

OnChain(status) == \E n \in 1..Len(StatusChain) : StatusChain[n] = status

\* C33: no step moves an order's status backwards along PENDING, CONFIRMED,
\* PREPARING, READY_TO_SHIP, DELIVERY_PARTNER_ASSIGNED, PICKED_UP,
\* OUT_FOR_DELIVERY, DELIVERED; in particular a payment.captured webhook for
\* an order already past CONFIRMED leaves its status where it is.
C33_StatusNeverMovesBackwards ==
  [][\A o \in Orders :
       (OnChain(order_status[o]) /\ OnChain(order_status'[o]))
         => ChainIndex(order_status'[o]) >= ChainIndex(order_status[o])]_vars

\* ------------------------------------------------------------------------
\* C34
\* ------------------------------------------------------------------------
\* a status, cancel or claim request of p commits its write
StatusWritten(p) ==
  /\ pc[p] \in {"write_status", "write_claim"}
  /\ pc'[p] = "done"
  /\ resp'[p] = "200"

\* a change the status route or the claim route may make to an order
LegalTransition(from, to) ==
  \/ DictGet(SELLER_TRANSITIONS, from) = to
  \/ DictGet(DELIVERY_TRANSITIONS, from) = to
  \/ from \in CANCEL_ALLOWED_STATUSES /\ to = "CANCELLED"
  \/ from = "READY_TO_SHIP" /\ to = "DELIVERY_PARTNER_ASSIGNED"

\* C34: concurrent status-changing requests for one order behave as if run
\* one after the other: a request writes only over the status it was
\* validated against, and every change it records is a legal transition
\* from the status recorded immediately before it.
C34_ConcurrentStatusChangesSerialise ==
  [][\A p \in Procs :
       StatusWritten(p) =>
         LET o == req[p].order
         IN  /\ order_status[o] = loc[p].order_status
             /\ LegalTransition(order_status[o], order_status'[o])]_vars

\* ------------------------------------------------------------------------
\* C35
\* ------------------------------------------------------------------------
\* the pending aggregates get_pending_settlements_by_user would list for a
\* user: one record, or none
PendingAggregate(user) ==
  IF SellerMerged(user) \/ DeliveryMerged(user) THEN {PendingSettlement(user)}
  ELSE {}

\* C35: create_settlement for a user changes the pending aggregates of that
\* user only; settling an order for its seller leaves the pending
\* delivery-fee payout of its delivery partner in place, and the other way
\* round.
C35_SettlementLeavesOtherPayeesPending ==
  [][\A p \in Procs :
       SettleCommitted(p) =>
         \A u \in Users \ {st[p].user} :
           PendingAggregate(u)' = PendingAggregate(u)]_vars

\* ------------------------------------------------------------------------
\* C36
\* ------------------------------------------------------------------------
\* the settlement call of p for a listed record comes to its end
ListedSettleEnds(p) ==
  /\ pending.computed
  /\ st[p].pc \in {"read", "commit"}
  /\ st'[p].pc = "done"

\* C36: for every user of the pending list, create_settlement with the
\* user's id and exactly the listed order ids succeeds, and the amount,
\* commission_amount and net_amount of the settlement equal the
\* total_amount, commission_amount and net_amount of the listed aggregate,
\* also for a user who is seller and delivery partner of the same order.
C36_ListedAggregateSettlesAsListed ==
  [][\A p \in Procs :
       ListedSettleEnds(p) =>
         LET listed == pending.records[st[p].user]
             row == settlements'[Len(settlements')]
         IN  /\ st'[p].result = "ok"
             /\ row.user_id = listed.user_id
             /\ row.amount = listed.total_amount
             /\ row.commission_amount = listed.commission_amount
             /\ row.net_amount = listed.net_amount]_vars

\* ------------------------------------------------------------------------
\* C37
\* ------------------------------------------------------------------------
\* the order is covered by a settlement made for its seller
SettledForSeller(o) ==
  /\ settlement_id[o] # None
  /\ \E n \in 1..Len(settlements) :
       /\ settlements[n].id = settlement_id[o]
       /\ settlements[n].user_id = seller_id(o)

\* C37: an order that has been included in a settlement for its seller is
\* never CANCELLED afterwards; no reachable state holds an order with
\* settlement_id set and order_status CANCELLED.
C37_SettledOrderNeverCancelled ==
  \A o \in Orders : SettledForSeller(o) => order_status[o] # "CANCELLED"

\* ------------------------------------------------------------------------
\* C38
\* ------------------------------------------------------------------------
\* checkout p waits for an inventory row lock that checkout q holds
WaitsOn(p, q) == WaitsFor(p) # None /\ inv_lock[WaitsFor(p)] = q

\* C38: the inventory row locks of concurrent checkouts never form a wait
\* cycle, so that every checkout goes on to commit or to fail with a
\* validation error.
C38_NoLockWaitCycle ==
  \A p \in Procs : \A q \in Procs \ {p} : ~(WaitsOn(p, q) /\ WaitsOn(q, p))

\* ------------------------------------------------------------------------
\* C39
\* ------------------------------------------------------------------------
\* the statuses of the seller flow and of the delivery flow, as sets
SellerFlowStatuses == {SellerFlow[n] : n \in 1..Len(SellerFlow)}
DeliveryFlowStatuses == {DeliveryFlow[n] : n \in 1..Len(DeliveryFlow)}

\* C39: in every reachable state an order at DELIVERY_PARTNER_ASSIGNED,
\* PICKED_UP, OUT_FOR_DELIVERY or DELIVERED has a delivery partner, and an
\* order at PENDING, CONFIRMED, PREPARING or READY_TO_SHIP has none.
C39_DeliveryPartnerMatchesStatus ==
  \A o \in Orders :
    /\ order_status[o] \in DeliveryFlowStatuses => delivery_partner_id[o] # None
    /\ order_status[o] \in SellerFlowStatuses => delivery_partner_id[o] = None

====
